---- MODULE Spec2Model ----
(***************************************************************************)
(* Verification model of the resilient client and service discovery core   *)
(* of triton-rust:                                                         *)
(*   - RetryPolicy::delay_for_attempt   (triton-core/src/client.rs)        *)
(*   - ServiceClient::execute_with_retry (triton-core/src/client.rs)       *)
(*   - SapiDiscovery                     (triton-sapi/src/client.rs)       *)
(*   - DiscoveryStatus, ServiceDiscoveryProxy (triton-core/src/services.rs)*)
(*   - NapiDiscovery, CnapiDiscovery     (triton-napi, triton-cnapi)       *)
(*                                                                         *)
(* The specifications share the variables below:                           *)
(*   SpecBackoff  the pure backoff function applied to drawn inputs        *)
(*   SpecExec     one execute_with_retry call against an arbitrary backend *)
(*   Spec         SapiDiscovery used by concurrent callers                 *)
(*   SpecWrap     the owners of a DiscoveryStatus other than the lookup of *)
(*                SapiDiscovery, over an arbitrary inner discovery         *)
(*   SpecProxies  several ServiceDiscoveryProxy handles over one shared    *)
(*                inner source                                             *)
(*   SpecAll      one SapiDiscovery::discover_all_services call            *)
(*   SpecLocks    the lock sections of SapiDiscovery, callers in parallel  *)
(*   SpecSend     the retry loops of ServiceClient, CnapiClient and        *)
(*                NapiClient against one backend                           *)
(*   SpecExtract  extract_instance_endpoints applied to drawn instances    *)
(*   SpecEndpoints discover_service_endpoints over drawn directories       *)
(*   SpecLookup   SapiDiscovery answered by discover_service_endpoints     *)
(*   SpecLocksLive the lock sections under fair scheduling                 *)
(*   SpecNested   one lookup followed request by request through the       *)
(*                loops of refresh_service and SapiClient::get_json        *)
(*                                                                         *)
(* Integer widths are scaled: u32 is U32Bits wide and u64 twice that, so   *)
(* that saturation and overflow are reachable by the model checker.        *)
(* Durations are counted in ticks, TicksPerMs ticks to the millisecond,    *)
(* so that Duration::as_millis truncates as it does in the code.           *)
(***************************************************************************)
EXTENDS Integers, Sequences, FiniteSets, TLC

VARIABLES
    overflow_checks,  \* build profile: TRUE = arithmetic overflow panics, FALSE = wraps
    bpolicy,          \* SpecBackoff: the RetryPolicy under evaluation
    bn,               \* SpecBackoff: first attempt number evaluated
    bout,             \* SpecBackoff: results of delay_for_attempt(bn), (bn+1)
    epolicy,          \* SpecExec: retry_policy of the ServiceClient
    epath_ok,         \* SpecExec: whether base_url.join(path) succeeds
    epc,              \* SpecExec: position of the call: "send", "sleep", "done"
    eattempt,         \* SpecExec: local `attempt`
    elast_error,      \* SpecExec: local `last_error`
    eresult,          \* SpecExec: value returned by the call
    ereqs,            \* SpecExec: number of requests sent so far
    elast_resp,       \* SpecExec: outcome of the latest request
    efails,           \* SpecExec: number of retryable failures so far
    esleeps,          \* SpecExec: time slept between attempts k and k+1, in order
                      \*           (0: the sleep() call is skipped, client.rs:488)
    enabled,          \* Spec: SapiDiscovery.enabled
    ttl,              \* Spec: SapiDiscovery.ttl, in clock units
    retry_attempts,   \* Spec: SapiDiscovery.retry_attempts
    fallback,         \* Spec: SapiDiscovery.fallback, key -> endpoints
    retry_policy,     \* Spec: SapiDiscovery.client.retry_policy
    now,              \* Spec: the monotonic clock read by Instant::now()
    cache,            \* Spec: SapiDiscovery.cache, key -> CachedEntry
    status,           \* Spec: SapiDiscovery.status
    tasks,            \* Spec: per caller, the position and locals of its call
    ncalls,           \* Spec: number of calls begun
    nqueries,         \* Spec: number of directory queries issued
    budget,           \* Spec: number of calls a run may begin
    hist,             \* SpecHist, SpecSeq: what an observer of the run has noted
    wkind,            \* SpecWrap: which owner of a DiscoveryStatus is under study
    wown,             \* SpecWrap: the wrapper's own service (ServiceDiscoveryProxy.service_name)
    wstatus,          \* SpecWrap: the DiscoveryStatus of that owner
    wnow,             \* SpecWrap: the clock read by Instant::now()
    wtasks,           \* SpecWrap: per caller, the position and locals of its call
    wcalls,           \* SpecWrap: number of operations begun
    pproxies,         \* SpecProxies: per proxy handle, its fields and the locals of its call
    pcells,           \* SpecProxies: the DiscoveryStatus allocations (Arc<RwLock<..>>), in order
    pinner,           \* SpecProxies: the shared inner source: its cache keys and its status
    pilog,            \* SpecProxies: the calls the inner source has received, in order
    pclock,           \* SpecProxies: the clock read by Instant::now()
    pops,             \* SpecProxies: number of operations begun
    pact,             \* SpecProxies: the operation of the latest step, and the handle it was made on
    aloop,            \* SpecAll: position and locals of the discover_all_services call
    lenabled,         \* SpecLocks: SapiDiscovery.enabled
    lretry,           \* SpecLocks: SapiDiscovery.retry_attempts
    lk,               \* SpecLocks: the cache lock and the status lock: readers and writer
    ltasks,           \* SpecLocks: per caller, the position of its call and its attempt
    lcalls,           \* SpecLocks: number of calls begun
    spolicy,          \* SpecSend: the RetryPolicy of the three clients
    sscript,          \* SpecSend: what the backend answers to the 1st, 2nd, ... request
    sruns,            \* SpecSend: per retry loop, its position, counters and result
    xservice,         \* SpecExtract, SpecEndpoints: the TritonService asked for
    xinstance,        \* SpecExtract: the instance record handed to extract_instance_endpoints
    xdir,             \* SpecEndpoints: what the directory answers to the listing requests
    xout,             \* SpecExtract, SpecEndpoints: the value returned
    nest              \* SpecNested: one discover_service call down to its HTTP requests

bvars == <<bpolicy, bn, bout>>
evars == <<epolicy, epath_ok, epc, eattempt, elast_error, eresult, ereqs,
           elast_resp, efails, esleeps>>
dconfig == <<enabled, ttl, retry_attempts, fallback, retry_policy, budget>>
dvars == <<dconfig, now, cache, status, tasks, ncalls, nqueries, hist>>
wvars == <<wkind, wown, wstatus, wnow, wtasks, wcalls>>
pvars == <<pproxies, pcells, pinner, pilog, pclock, pops, pact>>
avars == <<aloop>>
lvars == <<lenabled, lretry, lk, ltasks, lcalls>>
svars == <<spolicy, sscript, sruns>>
xvars == <<xservice, xinstance, xdir, xout>>
vars == <<overflow_checks, bvars, evars, dvars, wvars, pvars, avars, lvars, svars, xvars,
          nest>>

\* the variables of the specifications that are not running
Unused == "unused"
BIdle == bpolicy = Unused /\ bn = Unused /\ bout = Unused
EIdle ==
    /\ epolicy = Unused /\ epath_ok = Unused /\ epc = Unused /\ eattempt = Unused
    /\ elast_error = Unused /\ eresult = Unused /\ ereqs = Unused
    /\ elast_resp = Unused /\ efails = Unused /\ esleeps = Unused
DIdle ==
    /\ enabled = Unused /\ ttl = Unused /\ retry_attempts = Unused
    /\ fallback = Unused /\ retry_policy = Unused /\ now = Unused /\ cache = Unused /\ status = Unused
    /\ tasks = Unused /\ ncalls = Unused /\ nqueries = Unused
    /\ budget = Unused /\ hist = Unused
WIdle ==
    /\ wkind = Unused /\ wown = Unused /\ wstatus = Unused /\ wnow = Unused
    /\ wtasks = Unused /\ wcalls = Unused
PIdle ==
    /\ pproxies = Unused /\ pcells = Unused /\ pinner = Unused /\ pilog = Unused
    /\ pclock = Unused /\ pops = Unused /\ pact = Unused
AIdle == aloop = Unused
LIdle ==
    /\ lenabled = Unused /\ lretry = Unused /\ lk = Unused /\ ltasks = Unused
    /\ lcalls = Unused
SIdle == spolicy = Unused /\ sscript = Unused /\ sruns = Unused
XIdle == xservice = Unused /\ xinstance = Unused /\ xdir = Unused /\ xout = Unused
NIdle == nest = Unused

\* Option<T>: None is the empty sequence, Some(x) the sequence of x
None == <<>>
Some(x) == <<x>>

Min(a, b) == IF a <= b THEN a ELSE b

(***************************************************************************)
(* Scaled machine integers and durations.                                  *)
(***************************************************************************)
U32Bits == 4
TicksPerMs == 2

U32Max == 2^U32Bits - 1
U64Max == 2^(2 * U32Bits) - 1

\* Duration::from_millis / Duration::from_secs(0)
from_millis(ms) == ms * TicksPerMs

\* Duration::as_millis: whole milliseconds, the sub-millisecond part dropped
as_millis(d) == d \div TicksPerMs

\* `x as u64` applied to the u128 of as_millis: keeps the low 64 bits
as_u64(x) == x % (U64Max + 1)

\* u32::saturating_pow
RECURSIVE saturating_pow(_, _)
saturating_pow(base, exp) ==
    IF exp = 0 THEN 1 ELSE Min(saturating_pow(base, exp - 1) * base, U32Max)

\* u64 `*`: panics under overflow checks, wraps otherwise
mul_u64(a, b, checks) ==
    IF a * b <= U64Max THEN [panic |-> FALSE, val |-> a * b]
    ELSE IF checks THEN [panic |-> TRUE, val |-> 0]
    ELSE [panic |-> FALSE, val |-> (a * b) % (U64Max + 1)]

(***************************************************************************)
(* RetryPolicy (client.rs:70-156).  Delays are Durations, in ticks.        *)
(***************************************************************************)
\* RetryPolicy::delay_for_attempt; the result is [panic, dur]
delay_for_attempt(p, attempt, checks) ==
    IF attempt = 0 THEN [panic |-> FALSE, dur |-> 0]
    ELSE LET multiplier == saturating_pow(p.backoff_multiplier, attempt - 1)
             delay_ms   == mul_u64(as_u64(as_millis(p.initial_delay)), multiplier, checks)
             delay      == from_millis(delay_ms.val)
         IN  IF delay_ms.panic THEN [panic |-> TRUE, dur |-> 0]
             ELSE [panic |-> FALSE, dur |-> Min(delay, p.max_delay)]

\* RetryPolicy::has_retries
has_retries(p) == p.max_retries > 0

\* RetryPolicy::new, in units of DEFAULT_RETRY_DELAY_MS: 3 retries, initial
\* delay 1 unit, cap 10 units (5000 ms / 500 ms), multiplier 2
RetryPolicy_new ==
    [max_retries |-> 3, initial_delay |-> from_millis(1),
     max_delay |-> from_millis(10), backoff_multiplier |-> 2]

\* RetryPolicy::no_retry
RetryPolicy_no_retry ==
    [max_retries |-> 0, initial_delay |-> from_millis(0),
     max_delay |-> from_millis(0), backoff_multiplier |-> 1]

(***************************************************************************)
(* SpecBackoff: delay_for_attempt applied to policies the builder can make *)
(***************************************************************************)
\* with_initial_delay accepts any Duration: zero, sub-millisecond parts,
\* whole milliseconds, values near u32::MAX and u64::MAX ms, and beyond
InitialDelays ==
    {0, 1, from_millis(1), from_millis(1) + 1, from_millis(3),
     from_millis(U32Max + 2), from_millis(U64Max), from_millis(U64Max + 2)}

\* with_max_delay accepts any Duration
MaxDelays ==
    {0, from_millis(1), from_millis(10), from_millis(U32Max + 1),
     from_millis(U64Max), from_millis(U64Max) * 4}

\* with_backoff_multiplier accepts any u32
Multipliers == {0, 1, 2, 3, U32Max}

\* attempt is any u32
Attempts == {0, 1, 2, 3, 4, 5, U32Bits, U32Bits + 1, U32Max - 1, U32Max}

BackoffPolicies ==
    {[max_retries |-> 3, initial_delay |-> i, max_delay |-> m, backoff_multiplier |-> k] :
        i \in InitialDelays, m \in MaxDelays, k \in Multipliers}
    \cup {RetryPolicy_new, RetryPolicy_no_retry}

InitBackoff ==
    /\ overflow_checks \in BOOLEAN
    /\ bpolicy \in BackoffPolicies
    /\ bn \in Attempts
    /\ bout = <<>>
    /\ EIdle
    /\ DIdle
    /\ WIdle
    /\ PIdle
    /\ AIdle
    /\ LIdle
    /\ SIdle
    /\ XIdle
    /\ NIdle

\* one evaluation of delay_for_attempt: first for bn, then for bn + 1
BackoffCall ==
    /\ Len(bout) < 2
    /\ bn + Len(bout) <= U32Max
    /\ ~(Len(bout) = 1 /\ bout[1].panic)
    /\ bout' = Append(bout, delay_for_attempt(bpolicy, bn + Len(bout), overflow_checks))
    /\ UNCHANGED <<overflow_checks, xvars, nest, lvars, svars, avars, wvars, pvars, bpolicy, bn, evars, dvars>>

NextBackoff == BackoffCall

SpecBackoff == InitBackoff /\ [][NextBackoff]_vars

(***************************************************************************)
(* Claims about delay_for_attempt, checked under SpecBackoff.              *)
(***************************************************************************)
\* x * m^e, cut off just above cap: it compares against cap as the exact value does
RECURSIVE CappedProduct(_, _, _, _)
CappedProduct(x, m, e, cap) ==
    IF e = 0 THEN Min(x, cap + 1)
    ELSE CappedProduct(Min(x * m, cap + 1), m, e - 1, cap)

\* min(initial_delay * backoff_multiplier^(attempt-1), max_delay) over the exact values
ExactDelay(p, attempt) ==
    IF attempt = 0 THEN 0
    ELSE Min(CappedProduct(p.initial_delay, p.backoff_multiplier, attempt - 1, p.max_delay),
             p.max_delay)

\* the attempt number of the i-th evaluation recorded in bout
EvalAttempt(i) == bn + i - 1

DefaultPolicyDelays ==
    \A i \in 1..Len(bout) :
        bpolicy = RetryPolicy_new =>
            /\ ~bout[i].panic
            /\ bout[i].dur = ExactDelay(bpolicy, EvalAttempt(i))
            /\ EvalAttempt(i) \in 1..5 =>
                   bout[i].dur = from_millis(<<1, 2, 4, 8, 10>>[EvalAttempt(i)])

\* C6: for every constructible policy and every n >= 1,
\* delay_for_attempt(n) <= delay_for_attempt(n+1) <= max_delay.
C6_DelayMonotone ==
    bn >= 1 =>
        /\ \A i \in 1..Len(bout) : ~bout[i].panic /\ bout[i].dur <= bpolicy.max_delay
        /\ Len(bout) = 2 => bout[1].dur <= bout[2].dur

\* the u64 product computed at attempt a, as exact integers
ProductOperands(p, a) ==
    <<as_u64(as_millis(p.initial_delay)), saturating_pow(p.backoff_multiplier, a - 1)>>

\* C7: delay_for_attempt is total: the u64 product never overflows, wraps or
\* panics, and whenever the exact value exceeds max_delay the result is max_delay.
C7_DelayTotal ==
    \A i \in 1..Len(bout) :
        LET a == EvalAttempt(i) IN
        /\ ~bout[i].panic
        /\ a >= 1 => ProductOperands(bpolicy, a)[1] * ProductOperands(bpolicy, a)[2] <= U64Max
        /\ (a >= 1 /\ CappedProduct(bpolicy.initial_delay, bpolicy.backoff_multiplier,
                                    a - 1, bpolicy.max_delay) > bpolicy.max_delay) =>
               bout[i].dur = bpolicy.max_delay

(***************************************************************************)
(* ServiceClient::execute_with_retry (client.rs:427-504).                  *)
(* An error value is [kind, req]: its variant and the request whose        *)
(* response produced its message.                                          *)
(***************************************************************************)
MaxRetries == 3

NoError == [kind |-> "none", req |-> 0]
NoResp == [kind |-> "none", code |-> 0]

\* HTTP statuses a backend may answer with
Statuses == {200, 204, 304, 400, 401, 403, 404, 409, 429, 500, 502, 503, 504, 599}

\* reqwest::Error of send(): a timeout, a connection failure, anything else
TransportFailures == {"timeout", "connect", "other"}

Responses ==
    {[kind |-> "status", code |-> c] : c \in Statuses}
    \cup {[kind |-> f, code |-> 0] : f \in TransportFailures}

\* StatusCode::is_success
is_success(code) == code \in 200..299

\* StatusCode::is_server_error
is_server_error(code) == code \in 500..599

\* a variant of should_retry that forgets the generic 5xx arm
should_retry_named_only(code) == code \in {429, 502, 503, 504}

\* should_retry (client.rs:518-526)
should_retry(code) == code \in {429, 502, 503, 504} \/ is_server_error(code)

\* a variant of the success test that accepts only 200 OK
success_only_200(resp) == resp.kind = "status" /\ resp.code = 200

\* the Ok(response) arm is left with `return Ok(response)` (client.rs:453-457)
returns_ok(resp) == resp.kind = "status" /\ is_success(resp.code)

\* map_status_to_error of the VMAPI client, the error classifier of
\* get_vm_not_found (vmapi client.rs:218-234)
map_status_to_error(code, req) ==
    [kind |-> CASE code = 404 -> "NotFound"
                [] code \in {401, 403} -> "InvalidRequest"
                [] code \in {429, 502, 503, 504} -> "ServiceUnavailable"
                [] is_server_error(code) -> "ServiceUnavailable"
                [] OTHER -> "HttpError",
     req |-> req]

\* impl From<reqwest::Error> for Error (error.rs:176-186)
from_reqwest(failure, req) ==
    [kind |-> CASE failure = "timeout" -> "Timeout"
                [] failure = "connect" -> "ServiceUnavailable"
                [] OTHER -> "HttpError",
     req |-> req]

\* the matches! of the Err(err) arm (client.rs:472-475)
transport_retryable(error) == error.kind \in {"Timeout", "ServiceUnavailable", "HttpError"}

\* u32 `+= 1`: panics under overflow checks, wraps otherwise
add_u32(a, b, checks) ==
    IF a + b <= U32Max THEN [panic |-> FALSE, val |-> a + b]
    ELSE IF checks THEN [panic |-> TRUE, val |-> 0]
    ELSE [panic |-> FALSE, val |-> (a + b) % (U32Max + 1)]

\* the 'request failed after retries' error of the unwrap_or_else
GenericError == [kind |-> "ServiceUnavailable", req |-> 0]

\* a loop end that forgets the recorded error
generic_error(last) == GenericError

\* the error returned after the loop (client.rs:498-503)
exhausted_error(last) ==
    IF last # NoError THEN last ELSE [kind |-> "ServiceUnavailable", req |-> 0]

Ok == [kind |-> "ok", err |-> NoError]
Err(e) == [kind |-> "err", err |-> e]
Panicked == [kind |-> "panic", err |-> NoError]
Pending == [kind |-> "none", err |-> NoError]

\* max_retries is any u32: small values and u32::MAX
RetryChoices == 0..MaxRetries \cup {U32Max}

\* delay settings of the executor's policy: the default ones, no delay at
\* all, a sub-millisecond initial delay, and a cap below the second delay
ExecDelays ==
    {<<from_millis(1), from_millis(10), 2>>, <<0, 0, 1>>,
     <<1, from_millis(10), 2>>, <<from_millis(2), from_millis(3), 3>>}

ExecPolicies ==
    {[max_retries |-> r, initial_delay |-> d[1], max_delay |-> d[2],
      backoff_multiplier |-> d[3]] : r \in RetryChoices, d \in ExecDelays}

InitExec ==
    /\ overflow_checks \in BOOLEAN
    /\ epolicy \in ExecPolicies
    /\ epath_ok \in BOOLEAN
    /\ epc = "send"
    /\ eattempt = 0
    /\ elast_error = NoError
    /\ eresult = Pending
    /\ ereqs = 0
    /\ elast_resp = NoResp
    /\ efails = 0
    /\ esleeps = <<>>
    /\ BIdle
    /\ DIdle
    /\ WIdle
    /\ PIdle
    /\ AIdle
    /\ LIdle
    /\ SIdle
    /\ XIdle
    /\ NIdle

\* the call returns `result`
ExecReturn(result) ==
    /\ epc' = "done"
    /\ eresult' = result

\* `self.request(..)?` fails in build_url: the call returns before sending
ExecBuildFails ==
    /\ epc = "send"
    /\ ~epath_ok
    /\ ExecReturn(Err([kind |-> "InvalidEndpoint", req |-> 0]))
    /\ UNCHANGED <<overflow_checks, xvars, nest, lvars, svars, avars, wvars, pvars, bvars, dvars, epolicy, epath_ok, eattempt, elast_error,
                   ereqs, elast_resp, efails, esleeps>>

\* the tail of one loop iteration after a retryable failure (client.rs:483-496)
ExecAfterFailure(error) ==
    LET next == add_u32(eattempt, 1, overflow_checks)
        delay == delay_for_attempt(epolicy, next.val, overflow_checks)
    IN  /\ elast_error' = error
        /\ efails' = efails + 1
        /\ IF next.panic
           THEN ExecReturn(Panicked) /\ UNCHANGED <<eattempt, esleeps>>
           ELSE /\ eattempt' = next.val
                /\ IF next.val > epolicy.max_retries
                   THEN ExecReturn(Err(exhausted_error(error))) /\ UNCHANGED esleeps
                   ELSE IF delay.panic
                   THEN ExecReturn(Panicked) /\ UNCHANGED esleeps
                   ELSE /\ epc' = IF delay.dur > 0 THEN "sleep" ELSE "send"
                        /\ esleeps' = Append(esleeps, delay.dur)
                        /\ UNCHANGED eresult

\* one loop iteration: the request is built and sent, its outcome classified
ExecSend(resp) ==
    /\ epc = "send"
    /\ epath_ok
    /\ ereqs <= U32Max + 1
    /\ ereqs' = ereqs + 1
    /\ elast_resp' = resp
    /\ IF returns_ok(resp)
       THEN /\ ExecReturn(Ok)
            /\ UNCHANGED <<eattempt, elast_error, efails, esleeps>>
       ELSE LET error == IF resp.kind = "status"
                         THEN map_status_to_error(resp.code, ereqs + 1)
                         ELSE from_reqwest(resp.kind, ereqs + 1)
                retry == IF resp.kind = "status" THEN should_retry(resp.code)
                         ELSE transport_retryable(error)
            IN  IF retry THEN ExecAfterFailure(error)
                ELSE /\ ExecReturn(Err(error))
                     /\ UNCHANGED <<eattempt, elast_error, efails, esleeps>>
    /\ UNCHANGED <<overflow_checks, xvars, nest, lvars, svars, avars, wvars, pvars, bvars, dvars, epolicy, epath_ok>>

\* the backoff sleep ends
ExecWake ==
    /\ epc = "sleep"
    /\ epc' = "send"
    /\ UNCHANGED <<overflow_checks, xvars, nest, lvars, svars, avars, wvars, pvars, bvars, dvars, epolicy, epath_ok, eattempt, elast_error,
                   eresult, ereqs, elast_resp, efails, esleeps>>

NextExec ==
    \/ ExecBuildFails
    \/ \E resp \in Responses : ExecSend(resp)
    \/ ExecWake

SpecExec == InitExec /\ [][NextExec]_vars

(***************************************************************************)
(* Claims about execute_with_retry, checked under SpecExec.                *)
(***************************************************************************)
\* every request sent so far ended in a retryable failure
AllFailedSoFar == epath_ok /\ efails = ereqs

\* a status the claims call retryable: 429 or any 5xx
RetryableStatus(code) == code = 429 \/ code \in 500..599

\* the error the classifier yields for the latest response
LatestError ==
    IF elast_resp.kind = "status" THEN map_status_to_error(elast_resp.code, ereqs)
    ELSE from_reqwest(elast_resp.kind, ereqs)

\* C1: for every max_retries N, a call whose every attempt fails retryably
\* sends exactly N+1 requests and then returns Err with the error of the last
\* attempt (ServiceUnavailable for a 503); with N = 0 exactly one request.
C1_RetryBoundary ==
    AllFailedSoFar =>
        /\ ereqs <= epolicy.max_retries + 1
        /\ epc = "done" => ereqs = epolicy.max_retries + 1
        /\ ereqs = epolicy.max_retries + 1 =>
               /\ epc = "done"
               /\ eresult = Err(LatestError)
               /\ (elast_resp.kind = "status" /\ elast_resp.code = 503) =>
                      eresult.err.kind = "ServiceUnavailable"
        /\ (~has_retries(epolicy) /\ epc = "done") => ereqs = 1

\* the part of C1 that holds: the same statement for max_retries below u32::MAX
RetryBoundaryBelowMax ==
    epolicy.max_retries < U32Max => C1_RetryBoundary

\* the spec's example: max_retries = 3 and a backend that always answers 503
\* end in Err(ServiceUnavailable) after 4 requests
RetryBoundaryExample ==
    /\ epolicy.max_retries = 3
    /\ AllFailedSoFar
    /\ elast_resp = [kind |-> "status", code |-> 503]
    /\ ereqs = 4
    /\ epc = "done"
    /\ eresult = Err([kind |-> "ServiceUnavailable", req |-> 4])

\* C2: a non-2xx response is followed by a further attempt (when attempts
\* remain) iff its status is 429 or 5xx; any other non-2xx status ends the call
\* at that attempt with the classifier's error (404: NotFound).
C2_RetryIffRetryableStatus ==
    (elast_resp.kind = "status" /\ elast_resp.code \notin 200..299) =>
        /\ (RetryableStatus(elast_resp.code) /\ ereqs <= epolicy.max_retries) =>
               epc \in {"send", "sleep"}
        /\ ~RetryableStatus(elast_resp.code) =>
               /\ epc = "done"
               /\ eresult = Err(LatestError)
               /\ elast_resp.code = 404 => eresult.err.kind = "NotFound"

\* C2's case: a 404 on the first attempt ended the call after one request
C2_Witness ==
    /\ elast_resp = [kind |-> "status", code |-> 404]
    /\ ereqs = 1
    /\ epc = "done"
    /\ eresult.err.kind = "NotFound"
    /\ epolicy.max_retries = 3

\* C3: the call returns Ok on the first 2xx response and sends nothing
\* afterwards: k retryable failures (k <= max_retries) followed by a 2xx give
\* Ok after exactly k+1 requests, and the recorded last_error is not surfaced.
C3_OkOnFirstSuccess ==
    /\ (elast_resp.kind = "status" /\ elast_resp.code \in 200..299) =>
           (epc = "done" /\ eresult = Ok)
    /\ eresult.kind = "ok" =>
           /\ elast_resp.kind = "status" /\ elast_resp.code \in 200..299
           /\ ereqs = efails + 1
           /\ eresult.err = NoError
    /\ (AllFailedSoFar /\ ereqs <= epolicy.max_retries) => epc # "done"

\* C3's case: Ok after two retryable failures, the last a 204, with an error recorded
C3_Witness ==
    /\ eresult = Ok
    /\ efails = 2
    /\ ereqs = 3
    /\ elast_resp.code = 204
    /\ elast_error # NoError

\* C4: no sleep before the first attempt; after the k-th failed attempt and
\* before attempt k+1 the executor sleeps exactly delay_for_attempt(k); after
\* the final failed attempt it returns without sleeping, so a fully failing
\* call sleeps exactly max_retries times (once per gap between attempts).
C4_SleepSchedule ==
    epath_ok =>
        /\ ereqs = 0 => (esleeps = <<>> /\ epc # "sleep")
        /\ \A k \in 1..Len(esleeps) :
               esleeps[k] = delay_for_attempt(epolicy, k, overflow_checks).dur
        /\ epc \in {"send", "sleep"} => Len(esleeps) = efails
        /\ (AllFailedSoFar /\ ereqs = epolicy.max_retries + 1) =>
               (epc = "done" /\ eresult.kind = "err")
        /\ (AllFailedSoFar /\ epc = "done") => Len(esleeps) = epolicy.max_retries

\* the part of C4 that holds: the same statement for max_retries below u32::MAX
SleepScheduleBelowMax ==
    epolicy.max_retries < U32Max => C4_SleepSchedule


(***************************************************************************)
(* SapiDiscovery (sapi client.rs:516-662): the caching, retrying lookup of *)
(* a service's endpoints.  Callers run concurrently; one action is one     *)
(* stretch of a call between two points where another caller can act (an   *)
(* await, or the release of a lock).                                       *)
(***************************************************************************)
MaxTime == 2
MaxCalls == 2

\* config.cache_ttl_secs and config.retry_attempts
TtlChoices == {0, 1}
RetryAttemptChoices == {0, 1}

\* two callers sharing one SapiDiscovery
Tasks == {"t1", "t2"}

\* service names a caller may pass
ServiceNames == {"vmapi", "VMAPI", "bogus"}

\* a lookup that keeps the caller's spelling
keep_case(name) == name

\* str::to_lowercase on the names above
to_lowercase(name) ==
    CASE name = "VMAPI" -> "vmapi"
      [] OTHER -> name

\* a cache keyed by the name as the caller spelled it
raw_key(service_name) == service_name

\* let service_key = service_name.to_lowercase() (client.rs:618)
cache_key(service_name) == to_lowercase(service_name)

\* TritonService::all() by name (types.rs)
TritonServiceNames ==
    {"vmapi", "cnapi", "napi", "imgapi", "papi", "fwapi", "sapi", "ufds", "amon",
     "workflow"}

\* a parse that takes every name for a service
parse_any(service) == TRUE

\* service.parse::<TritonService>() succeeds (client.rs:542)
parse_ok(service) == to_lowercase(service) \in TritonServiceNames

\* the services build_fallback_map reads from the configuration
FallbackServices == {"vmapi", "cnapi", "napi", "imgapi", "papi", "fwapi"}

\* config.services: one optional url per service; here only vmapi's is set
ServiceEndpointsChoices ==
    {[s \in FallbackServices |-> None],
     [s \in FallbackServices |->
         IF s = "vmapi" THEN Some("http://vmapi.fallback") ELSE None]}

\* build_fallback_map (client.rs:664-687)
build_fallback_map(endpoints) ==
    [s \in {x \in FallbackServices : endpoints[x] # None} |-> <<endpoints[s][1]>>]

\* HashMap::get
map_get(map, key) == IF key \in DOMAIN map THEN Some(map[key]) ELSE None

\* the sorted, non-empty endpoint lists discover_service_endpoints returns
EndpointLists ==
    {<<"http://10.0.0.1:80">>, <<"http://10.0.0.1:80", "http://10.0.0.2:80">>}

\* the errors discover_service_endpoints returns
QueryErrors == {"ServiceUnavailable", "NotFound"}

QueryOutcomes ==
    {[kind |-> "ok", endpoints |-> e] : e \in EndpointLists}
    \cup {[kind |-> "err", endpoints |-> <<>>, error |-> k] : k \in QueryErrors}

\* DiscoveryStatus::new (services.rs)
DiscoveryStatus_new ==
    [last_discovery_at |-> None, last_success_at |-> None, last_error |-> None,
     discovered_services |-> 0, failed_services |-> <<>>,
     cache_hits |-> 0, cache_misses |-> 0]

\* Vec::retain(|failed| failed != service)
RECURSIVE retain_not(_, _)
retain_not(list, service) ==
    IF list = <<>> THEN <<>>
    ELSE IF Head(list) = service THEN retain_not(Tail(list), service)
    ELSE <<Head(list)>> \o retain_not(Tail(list), service)

\* a record_success that does not count the miss
record_success_uncounted(st, service, count, t) ==
    [st EXCEPT !.last_discovery_at = Some(t),
               !.last_success_at = Some(t),
               !.last_error = None,
               !.discovered_services = count,
               !.failed_services = retain_not(@, service)]

\* record_success (client.rs:588-597)
record_success(st, service, count, t) ==
    [st EXCEPT !.last_discovery_at = Some(t),
               !.last_success_at = Some(t),
               !.last_error = None,
               !.discovered_services = count,
               !.failed_services = retain_not(@, service),
               !.cache_misses = @ + 1]

\* a record_error that notes the error but not the failed service
record_error_message_only(st, service, error, t) ==
    [st EXCEPT !.last_discovery_at = Some(t),
               !.last_error = IF error # None THEN error ELSE @]

\* a record_error that books the failed refresh as a cache miss
record_error_as_miss(st, service, error, t) ==
    [st EXCEPT !.last_discovery_at = Some(t),
               !.last_error = IF error # None THEN error ELSE @,
               !.failed_services =
                   IF \E i \in 1..Len(@) : @[i] = service THEN @
                   ELSE Append(@, service),
               !.cache_misses = @ + 1]

\* record_error (client.rs:599-608)
record_error(st, service, error, t) ==
    [st EXCEPT !.last_discovery_at = Some(t),
               !.last_error = IF error # None THEN error ELSE @,
               !.failed_services =
                   IF \E i \in 1..Len(@) : @[i] = service THEN @
                   ELSE Append(@, service)]

\* a clear that forgets the miss counter
clear_hits_only(st) == [st EXCEPT !.cache_hits = 0]

clear_whole_status(st) == DiscoveryStatus_new

\* status.cache_hits = 0; status.cache_misses = 0 (client.rs:658-660)
clear_counters(st) == [st EXCEPT !.cache_hits = 0, !.cache_misses = 0]

\* a cache hit booked as a miss
record_hit_as_miss(st) == [st EXCEPT !.cache_misses = @ + 1]

\* status.cache_hits += 1 (client.rs:633-634)
record_hit(st) == [st EXCEPT !.cache_hits = @ + 1]

\* a freshness test that also accepts entries older than the ttl
fresh_forever(entry, t, limit) == TRUE

\* a freshness test that rejects an entry exactly ttl old
fresh_strictly(entry, t, limit) == t - entry.fetched_at < limit

\* cache_entry_is_fresh (client.rs:610-612): fetched_at.elapsed() <= ttl
cache_entry_is_fresh(entry, t, limit) == t - entry.fetched_at <= limit

OkEndpoints(e) == [kind |-> "ok", val |-> e, err |-> NoError]
ErrOf(e) == [kind |-> "err", val |-> <<>>, err |-> e]
NotReturned == [kind |-> "none", val |-> <<>>, err |-> NoError]

\* a caller that is not inside a call
IdleTask ==
    [pc |-> "idle", name |-> "", key |-> "", attempt |-> 0,
     last_error |-> None, endpoints |-> <<>>, result |-> NotReturned,
     queries |-> 0, seen |-> None, src |-> "none"]


\* HashMap::new
EmptyMap == [k \in {} |-> None]

\* HashMap::insert
map_insert(map, key, value) ==
    [k \in DOMAIN map \cup {key} |-> IF k = key THEN value ELSE map[k]]

(***************************************************************************)
(* History of a run, kept for the claims that speak of a whole call or of  *)
(* counts of calls; a run with hist.on = FALSE keeps none, and the counts   *)
(* and the clears are kept only with hist.counting = TRUE.                 *)
(*   alone[t]          no other call has been in progress since t's call   *)
(*                     began                                               *)
(*   misses_before[t]  status.cache_misses when t's call began             *)
(*   hits, refreshes   calls answered from the cache, successful directory *)
(*                     refreshes, since construction or the last           *)
(*                     clear_cache                                         *)
(*   clears            the engine state <<cache, status>> after each of    *)
(*                     the clear_cache calls made in a row                 *)
(*   after_clear       the latest discover_service call was the first call *)
(*                     after a clear_cache                                 *)
(***************************************************************************)
NoHistory ==
    [on |-> FALSE, counting |-> FALSE, alone |-> [t \in Tasks |-> TRUE],
     misses_before |-> [t \in Tasks |-> 0], hits |-> 0, refreshes |-> 0,
     clears |-> <<>>, after_clear |-> FALSE]

\* t begins a call
NoteCall(h, t) ==
    [h EXCEPT !.alone = [u \in Tasks |->
                            IF u = t THEN \A v \in Tasks \ {t} : tasks[v].pc = "idle"
                            ELSE IF tasks[u].pc # "idle" THEN FALSE ELSE @[u]],
              !.misses_before[t] = status.cache_misses]

\* SapiDiscovery::new (client.rs:529-539) over a client with the default
\* retry policy.  No counter of the lookup comes near u32::MAX here, so the
\* build's overflow setting is immaterial and left at the checked one.
Init ==
    /\ overflow_checks = TRUE
    /\ enabled \in BOOLEAN
    /\ ttl \in TtlChoices
    /\ retry_attempts \in RetryAttemptChoices
    /\ fallback \in {build_fallback_map(c) : c \in ServiceEndpointsChoices}
    /\ retry_policy = RetryPolicy_new
    /\ now = 0
    /\ cache = EmptyMap
    /\ status = DiscoveryStatus_new
    /\ tasks = [t \in Tasks |-> IdleTask]
    /\ ncalls = 0
    /\ nqueries = 0
    /\ budget = MaxCalls
    /\ hist = NoHistory
    /\ BIdle
    /\ EIdle
    /\ WIdle
    /\ PIdle
    /\ AIdle
    /\ LIdle
    /\ SIdle
    /\ XIdle
    /\ NIdle

\* the call of `task` returns `result`, taken from `src`; its locals are dropped
Return(task, result, src) ==
    [task EXCEPT !.pc = "idle", !.result = result, !.src = src,
                 !.attempt = 0, !.last_error = None, !.endpoints = <<>>]

\* a call that waits for an answer without sending a query of its own
join_query(task) == [task EXCEPT !.pc = "query"]

\* the call of `task` sends one directory query and awaits the answer
\* (client.rs:547)
IssueQuery(task) == [task EXCEPT !.pc = "query", !.queries = @ + 1]

\* discover_service(name) up to its return or its first directory query
\* (client.rs:617-639, 541-547).  `seen` notes the entry the cache held for
\* the key and its age when the cache was read.
Discover(t, name) ==
    /\ tasks[t].pc = "idle"
    /\ ncalls < budget
    /\ ncalls' = ncalls + 1
    /\ LET service_key == cache_key(name)
           entry == map_get(cache, service_key)
           fb == map_get(fallback, service_key)
           call == [IdleTask EXCEPT
                       !.name = name, !.key = service_key,
                       !.seen = IF enabled /\ entry # None
                                THEN Some([endpoints |-> entry[1].endpoints,
                                           age |-> now - entry[1].fetched_at])
                                ELSE None]
       IN  IF ~enabled THEN
               /\ tasks' = [tasks EXCEPT ![t] =
                    IF fb # None /\ fb[1] # <<>>
                    THEN Return(call, OkEndpoints(fb[1]), "fallback")
                    ELSE Return(call, ErrOf([kind |-> "DiscoveryFailed", req |-> 0]),
                                "none")]
               /\ UNCHANGED <<cache, status, nqueries>>
           ELSE IF entry # None /\ cache_entry_is_fresh(entry[1], now, ttl) THEN
               /\ status' = record_hit(status)
               /\ tasks' = [tasks EXCEPT ![t] =
                    Return(call, OkEndpoints(entry[1].endpoints), "cache")]
               /\ UNCHANGED <<cache, nqueries>>
           ELSE IF ~parse_ok(service_key) THEN
               /\ tasks' = [tasks EXCEPT ![t] =
                    Return(call, ErrOf([kind |-> "InvalidRequest", req |-> 0]), "none")]
               /\ UNCHANGED <<cache, status, nqueries>>
           ELSE
               /\ tasks' = [tasks EXCEPT ![t] = IssueQuery(call)]
               /\ nqueries' = nqueries + 1
               /\ UNCHANGED <<cache, status>>
    /\ hist' = IF ~hist.on THEN hist
               ELSE IF ~hist.counting THEN NoteCall(hist, t)
               ELSE [NoteCall(hist, t) EXCEPT
                        !.hits = IF tasks'[t].src = "cache" THEN @ + 1 ELSE @,
                        !.clears = <<>>,
                        !.after_clear = hist.clears # <<>>]
    /\ UNCHANGED <<overflow_checks, xvars, nest, lvars, svars, avars, wvars, pvars, bvars, evars, dconfig, now>>

\* the directory answers the query of t (client.rs:547-571); on the last
\* failed attempt the call records the error and returns (574-585)
QueryReturns(t, out) ==
    /\ tasks[t].pc = "query"
    /\ tasks[t].queries <= U32Max + 1
    /\ LET task == tasks[t]
           err == [kind |-> out.error, req |-> task.queries]
           next == add_u32(task.attempt, 1, overflow_checks)
           failed == [task EXCEPT !.last_error = Some(err), !.attempt = next.val]
           delay == delay_for_attempt(retry_policy, next.val, overflow_checks)
           fb == map_get(fallback, task.key)
       IN  IF out.kind = "ok" THEN
               /\ status' = record_success(status, task.key, Len(out.endpoints), now)
               /\ tasks' = [tasks EXCEPT ![t] =
                    [task EXCEPT !.pc = "insert", !.endpoints = out.endpoints]]
               /\ UNCHANGED nqueries
           ELSE IF next.panic \/ (next.val <= retry_attempts /\ delay.panic) THEN
               /\ tasks' = [tasks EXCEPT ![t] =
                    Return(failed, [kind |-> "panic", val |-> <<>>, err |-> NoError],
                           "none")]
               /\ UNCHANGED <<status, nqueries>>
           ELSE IF next.val > retry_attempts THEN
               /\ status' = record_error(status, task.key, failed.last_error, now)
               /\ tasks' = [tasks EXCEPT ![t] =
                    IF fb # None /\ fb[1] # <<>>
                    THEN Return(failed, OkEndpoints(fb[1]), "fallback")
                    ELSE Return(failed, ErrOf(err), "none")]
               /\ UNCHANGED nqueries
           ELSE IF delay.dur > 0 THEN
               /\ tasks' = [tasks EXCEPT ![t] = [failed EXCEPT !.pc = "sleep"]]
               /\ UNCHANGED <<status, nqueries>>
           ELSE
               /\ tasks' = [tasks EXCEPT ![t] = IssueQuery(failed)]
               /\ nqueries' = nqueries + 1
               /\ UNCHANGED status
    /\ hist' = IF hist.counting /\ out.kind = "ok"
               THEN [hist EXCEPT !.refreshes = @ + 1] ELSE hist
    /\ UNCHANGED <<overflow_checks, xvars, nest, lvars, svars, avars, wvars, pvars, bvars, evars, dconfig, now, cache, ncalls>>

\* sleep(delay).await completes and the loop sends the next query
\* (client.rs:568, 546-547)
Wake(t) ==
    /\ tasks[t].pc = "sleep"
    /\ tasks' = [tasks EXCEPT ![t] = IssueQuery(@)]
    /\ nqueries' = nqueries + 1
    /\ UNCHANGED <<overflow_checks, xvars, nest, lvars, svars, avars, wvars, pvars, bvars, evars, dconfig, now, cache, status, ncalls,
                   hist>>

\* after record_success, the entry is written and the call returns
\* (client.rs:550-558)
CacheInsert(t) ==
    /\ tasks[t].pc = "insert"
    /\ cache' = map_insert(cache, tasks[t].key,
                           [endpoints |-> tasks[t].endpoints, fetched_at |-> now])
    /\ tasks' = [tasks EXCEPT ![t] =
            Return(@, OkEndpoints(tasks[t].endpoints), "directory")]
    /\ UNCHANGED <<overflow_checks, xvars, nest, lvars, svars, avars, wvars, pvars, bvars, evars, dconfig, now, status, ncalls, nqueries,
                   hist>>

\* clear_cache, first lock: the cache map is emptied (client.rs:657)
ClearCacheMap(t) ==
    /\ tasks[t].pc = "idle"
    /\ ncalls < budget
    /\ ncalls' = ncalls + 1
    /\ cache' = EmptyMap
    /\ tasks' = [tasks EXCEPT ![t] = [IdleTask EXCEPT !.pc = "clearing"]]
    /\ hist' = IF ~hist.on THEN hist
               ELSE IF ~hist.counting THEN NoteCall(hist, t)
               ELSE [NoteCall(hist, t) EXCEPT !.after_clear = FALSE]
    /\ UNCHANGED <<overflow_checks, xvars, nest, lvars, svars, avars, wvars, pvars, bvars, evars, dconfig, now, status, nqueries>>

\* clear_cache, second lock: the counters are zeroed (client.rs:658-660)
ClearCounters(t) ==
    /\ tasks[t].pc = "clearing"
    /\ status' = clear_counters(status)
    /\ tasks' = [tasks EXCEPT ![t] = [@ EXCEPT !.pc = "idle"]]
    /\ hist' = IF ~hist.counting THEN hist
               ELSE [hist EXCEPT !.hits = 0, !.refreshes = 0,
                                 !.clears = Append(@, <<cache, status'>>)]
    /\ UNCHANGED <<overflow_checks, xvars, nest, lvars, svars, avars, wvars, pvars, bvars, evars, dconfig, now, cache, ncalls, nqueries>>

\* the monotonic clock advances
Tick ==
    /\ now < MaxTime
    /\ now' = now + 1
    /\ UNCHANGED <<overflow_checks, xvars, nest, lvars, svars, avars, wvars, pvars, bvars, evars, dconfig, cache, status, tasks, ncalls,
                   nqueries, hist>>

Next ==
    \/ \E t \in Tasks, name \in ServiceNames : Discover(t, name)
    \/ \E t \in Tasks, out \in QueryOutcomes : QueryReturns(t, out)
    \/ \E t \in Tasks : Wake(t)
    \/ \E t \in Tasks : CacheInsert(t)
    \/ \E t \in Tasks : ClearCacheMap(t)
    \/ \E t \in Tasks : ClearCounters(t)
    \/ Tick

Spec == Init /\ [][Next]_vars


(***************************************************************************)
(* Claims about SapiDiscovery::discover_service.                           *)
(***************************************************************************)
\* the call of t read a cache entry for its key, of the given age
ReadEntry(t) == tasks[t].seen # None
AgeRead(t) == tasks[t].seen[1].age
Returned(t) == tasks[t].pc = "idle" /\ tasks[t].result # NotReturned

\* C8: with discovery enabled, a lookup that reads a cache entry of
\* age <= ttl is answered at once with that entry's endpoints and sends no
\* directory query; a lookup that reads an entry of age > ttl sends a new
\* directory query.
C8_CacheFreshness ==
    enabled =>
        \A t \in Tasks :
            ReadEntry(t) =>
                /\ AgeRead(t) <= ttl =>
                       /\ Returned(t)
                       /\ tasks[t].result = OkEndpoints(tasks[t].seen[1].endpoints)
                       /\ tasks[t].queries = 0
                /\ AgeRead(t) > ttl => tasks[t].queries >= 1

\* two lookups in a row, the second when the entry is exactly ttl old: one
\* directory query in all, one miss and one hit
C8_Witness ==
    /\ enabled /\ ttl > 0
    /\ ncalls = 2 /\ nqueries = 1
    /\ status.cache_misses = 1 /\ status.cache_hits = 1
    /\ \E t \in Tasks :
           /\ ReadEntry(t) /\ AgeRead(t) = ttl
           /\ Returned(t) /\ tasks[t].src = "cache"

\* a lookup of an entry older than ttl has its own directory query in flight
StaleLookupExample ==
    \E t \in Tasks :
        /\ ReadEntry(t) /\ AgeRead(t) = ttl + 1
        /\ tasks[t].pc = "query" /\ nqueries = 2

\* C9: no call returns the endpoints of a cache entry older than ttl.  A call
\* that read a stale entry sends a directory query and returns the answer
\* to it, or the static fallback of the key, or an error; endpoints come
\* from the cache only when the entry read was at most ttl old.
C9_NeverServesStale ==
    \A t \in Tasks :
        /\ tasks[t].src = "cache" => (ReadEntry(t) /\ AgeRead(t) <= ttl)
        /\ (ReadEntry(t) /\ AgeRead(t) > ttl /\ Returned(t)) =>
               /\ tasks[t].queries >= 1
               /\ \/ tasks[t].result.kind = "ok" /\ tasks[t].src = "directory"
                  \/ /\ tasks[t].src = "fallback"
                     /\ tasks[t].key \in DOMAIN fallback
                     /\ tasks[t].result = OkEndpoints(fallback[tasks[t].key])
                  \/ /\ tasks[t].result.kind = "err"
                     /\ tasks[t].key \notin DOMAIN fallback

\* a stale entry was read, the refresh failed on every attempt and the key
\* has no fallback: the call returned the error
C9_Witness ==
    \E t \in Tasks :
        /\ ReadEntry(t) /\ AgeRead(t) > ttl
        /\ Returned(t)
        /\ tasks[t].queries = retry_attempts + 1
        /\ tasks[t].key \notin DOMAIN fallback
        /\ tasks[t].result.kind = "err"
        /\ tasks[t].key \in DOMAIN cache

\* the lower-cased spelling of each name a caller passes
LowerCased == [n \in ServiceNames |-> IF n = "VMAPI" THEN "vmapi" ELSE n]

\* C10: with enabled = false no directory query is ever sent, and
\* discover_service(name) returns at once: Ok with exactly the fallback
\* endpoints of the lower-cased name when that entry is non-empty, and
\* Err(DiscoveryFailed) otherwise.
C10_DisabledUsesFallbackOnly ==
    ~enabled =>
        /\ nqueries = 0
        /\ \A t \in Tasks :
               /\ tasks[t].pc \notin {"query", "sleep", "insert"}
               /\ tasks[t].queries = 0
               /\ Returned(t) =>
                      LET key == LowerCased[tasks[t].name] IN
                      IF key \in DOMAIN fallback /\ fallback[key] # <<>>
                      THEN tasks[t].result = OkEndpoints(fallback[key])
                      ELSE /\ tasks[t].result.kind = "err"
                           /\ tasks[t].result.err.kind = "DiscoveryFailed"

\* disabled discovery answered "VMAPI" with the fallback of vmapi, and
\* another call for a name without fallback failed
C10_Witness ==
    /\ ~enabled
    /\ nqueries = 0
    /\ \E t \in Tasks :
           /\ tasks[t].name = "VMAPI"
           /\ tasks[t].result = OkEndpoints(<<"http://vmapi.fallback">>)
    /\ \E t \in Tasks :
           /\ tasks[t].name = "bogus"
           /\ tasks[t].result.kind = "err"


(***************************************************************************)
(* Sequential runs of one SapiDiscovery: a single caller, one call at a    *)
(* time, with the history kept; the client's policy may have no delay at   *)
(* all.  SpecSeq is a run of up to MaxSeqCalls calls; SpecRefresh is one   *)
(* call on a new engine whose retry_attempts is any u32 (small values and  *)
(* u32::MAX).                                                              *)
(***************************************************************************)
MaxSeqCalls == 4

Caller == "t1"

\* a client policy that never waits between attempts
NoDelayPolicy ==
    [max_retries |-> 3, initial_delay |-> 0, max_delay |-> 0, backoff_multiplier |-> 1]

InitWith(retry_choices, calls) ==
    /\ overflow_checks \in BOOLEAN
    /\ enabled \in BOOLEAN
    /\ ttl \in TtlChoices
    /\ retry_attempts \in retry_choices
    /\ fallback \in {build_fallback_map(c) : c \in ServiceEndpointsChoices}
    /\ retry_policy \in {RetryPolicy_new, NoDelayPolicy}
    /\ now = 0
    /\ cache = EmptyMap
    /\ status = DiscoveryStatus_new
    /\ tasks = [t \in Tasks |-> IdleTask]
    /\ ncalls = 0
    /\ nqueries = 0
    /\ budget = calls
    /\ hist = [NoHistory EXCEPT !.on = TRUE, !.counting = TRUE]
    /\ BIdle
    /\ EIdle
    /\ WIdle
    /\ PIdle
    /\ AIdle
    /\ LIdle
    /\ SIdle
    /\ XIdle
    /\ NIdle

InitSeq == InitWith(RetryAttemptChoices, MaxSeqCalls)

InitRefresh == InitWith(RetryAttemptChoices \cup {U32Max}, 1)

NextSeq ==
    \/ \E name \in ServiceNames : Discover(Caller, name)
    \/ \E out \in QueryOutcomes : QueryReturns(Caller, out)
    \/ Wake(Caller)
    \/ CacheInsert(Caller)
    \/ ClearCacheMap(Caller)
    \/ ClearCounters(Caller)
    \/ Tick

SpecSeq == InitSeq /\ [][NextSeq]_vars

SpecRefresh == InitRefresh /\ [][NextSeq]_vars

\* concurrent callers of an enabled engine without fallback endpoints, with
\* the history of the calls kept
InitHist ==
    /\ overflow_checks = TRUE
    /\ enabled = TRUE
    /\ ttl \in TtlChoices
    /\ retry_attempts \in RetryAttemptChoices
    /\ fallback = build_fallback_map([s \in FallbackServices |-> None])
    /\ retry_policy = RetryPolicy_new
    /\ now = 0
    /\ cache = EmptyMap
    /\ status = DiscoveryStatus_new
    /\ tasks = [t \in Tasks |-> IdleTask]
    /\ ncalls = 0
    /\ nqueries = 0
    /\ budget = MaxCalls
    /\ hist = [NoHistory EXCEPT !.on = TRUE]
    /\ BIdle
    /\ EIdle
    /\ WIdle
    /\ PIdle
    /\ AIdle
    /\ LIdle
    /\ SIdle
    /\ XIdle
    /\ NIdle

SpecHist == InitHist /\ [][Next]_vars

(***************************************************************************)
(* Claims about refresh_service and the status bookkeeping.                *)
(***************************************************************************)
\* every one of the retry_attempts + 1 directory queries of t's call has
\* been answered with an error
RefreshFailed(t) ==
    /\ tasks[t].queries = retry_attempts + 1
    /\ tasks[t].pc \notin {"query", "insert"}
    /\ tasks[t].src # "directory"

HasFallback(key) == key \in DOMAIN fallback /\ fallback[key] # <<>>

\* C11: when every attempt of the refresh has failed, the call has returned:
\* Ok with exactly the fallback endpoints of the key when there are some,
\* and otherwise Err with the error of the last attempt.
C11_FallbackOrLastError ==
    \A t \in Tasks :
        RefreshFailed(t) =>
            /\ Returned(t)
            /\ IF HasFallback(tasks[t].key)
               THEN tasks[t].result = OkEndpoints(fallback[tasks[t].key])
               ELSE /\ tasks[t].result.kind = "err"
                    /\ tasks[t].result.err.kind \in QueryErrors
                    /\ tasks[t].result.err.req = retry_attempts + 1

\* the same for every retry_attempts below u32::MAX
FallbackOrLastErrorBelowMax == retry_attempts < U32Max => C11_FallbackOrLastError

\* two attempts failed and the key has no fallback: the error of the second
\* attempt is returned
FallbackOrLastErrorExample ==
    /\ retry_attempts = 1
    /\ RefreshFailed(Caller)
    /\ ~HasFallback(tasks[Caller].key)
    /\ tasks[Caller].result.kind = "err"
    /\ tasks[Caller].result.err.req = 2


\* x occurs in the list
Contains(list, x) == \E i \in 1..Len(list) : list[i] = x

\* in this step the call of t returns the fallback after a failed refresh
ReturnsFallbackAfterFailure(t) ==
    /\ tasks[t].pc = "query"
    /\ tasks'[t].pc = "idle"
    /\ tasks'[t].src = "fallback"

\* C12: at the step in which a call returns Ok with the fallback endpoints
\* after its refresh failed, the status has last_error set, to the error of
\* the call's last attempt, and failed_services contains the service key:
\* the failure is recorded before the fallback is returned.
C12_FailureRecordedBeforeFallback ==
    [][\A t \in Tasks :
          ReturnsFallbackAfterFailure(t) =>
              /\ tasks'[t].result = OkEndpoints(fallback[tasks[t].key])
              /\ status'.last_error =
                     Some([kind |-> status'.last_error[1].kind,
                           req |-> tasks'[t].queries])
              /\ status'.last_error[1].kind \in QueryErrors
              /\ Contains(status'.failed_services, tasks[t].key)]_vars

\* a call whose two attempts failed has returned the fallback, and the
\* status shows the failure
C12_Witness ==
    \E t \in Tasks :
        /\ Returned(t) /\ tasks[t].src = "fallback"
        /\ tasks[t].queries = 2
        /\ tasks[t].result.kind = "ok"
        /\ status.last_error # None
        /\ Contains(status.failed_services, tasks[t].key)


\* in this step the call of t returns the endpoints of its successful
\* refresh
ReturnsRefreshed(t) == tasks[t].pc = "insert" /\ tasks'[t].pc = "idle"

\* the status after a successful refresh of `key` by a call that began with
\* `before` misses counted
SuccessRecorded(st, key, before) ==
    /\ st.last_error = None
    /\ ~Contains(st.failed_services, key)
    /\ st.cache_misses = before + 1

\* the cache holds the endpoints the call returns
CacheHoldsResult(t) ==
    /\ tasks[t].key \in DOMAIN cache'
    /\ cache'[tasks[t].key].endpoints = tasks'[t].result.val
    /\ tasks'[t].result.kind = "ok"

\* C13: when a call returns after a successful refresh, the cache holds an
\* entry for the key with the returned endpoints, last_error is None, the
\* key is not in failed_services and cache_misses is one greater than
\* before the call.
C13_SuccessBookkeeping ==
    [][\A t \in Tasks :
          ReturnsRefreshed(t) =>
              /\ CacheHoldsResult(t)
              /\ SuccessRecorded(status', tasks[t].key, hist.misses_before[t])]_vars

\* C13, for calls that no other call overlapped: the same; the cache part
\* holds for every call
C13_SuccessBookkeepingAlone ==
    [][\A t \in Tasks :
          ReturnsRefreshed(t) =>
              /\ CacheHoldsResult(t)
              /\ hist.alone[t] =>
                     SuccessRecorded(status', tasks[t].key, hist.misses_before[t])]_vars

\* a call that ran alone returned from its second successful refresh
C13_Witness ==
    \E t \in Tasks :
        /\ Returned(t) /\ tasks[t].src = "directory"
        /\ hist.alone[t]
        /\ hist.misses_before[t] = 1
        /\ status.cache_misses = 2
        /\ tasks[t].key \in DOMAIN cache
        /\ cache[tasks[t].key].endpoints = tasks[t].result.val


\* C14: in a sequential run of an enabled engine, cache_hits is the number
\* of discover_service calls answered from a fresh cache entry and
\* cache_misses the number of successful directory refreshes, both counted
\* since construction or the last clear_cache.
C14_CountersMatchHistory ==
    enabled =>
        /\ status.cache_hits = hist.hits
        /\ status.cache_misses = hist.refreshes

\* one miss followed by one hit for the same service: both counters are 1
C14_Witness ==
    /\ enabled
    /\ ncalls = 2
    /\ Returned(Caller) /\ tasks[Caller].src = "cache"
    /\ hist.hits = 1 /\ hist.refreshes = 1
    /\ status.cache_hits = 1 /\ status.cache_misses = 1
    /\ nqueries = 1


\* the engine state <<cache, status>> is that of a cleared engine
Cleared(engine) ==
    /\ engine[1] = EmptyMap
    /\ engine[2].cache_hits = 0
    /\ engine[2].cache_misses = 0

\* after clear_cache calls made in a row the engine is in the state the
\* first of them left, a cleared one
ClearIsIdempotent ==
    \A i \in 1..Len(hist.clears) :
        /\ hist.clears[i] = hist.clears[1]
        /\ Cleared(hist.clears[i])

\* C15: two consecutive clear_cache calls leave the state one call leaves:
\* an empty cache and both counters 0; and the next discover_service, for
\* any key, queries the directory.
C15_ClearIdempotent ==
    /\ ClearIsIdempotent
    /\ hist.after_clear => tasks[Caller].queries >= 1

\* C15, with the lookup that follows limited to what can reach the
\* directory: discovery is enabled and the key names a known service
C15_ClearIdempotentKnownService ==
    /\ ClearIsIdempotent
    /\ (hist.after_clear /\ enabled /\ parse_ok(tasks[Caller].key)) =>
           /\ tasks[Caller].queries >= 1
           /\ tasks[Caller].seen = None

\* an engine that had refreshed a service was cleared twice in a row
TwoClearsExample ==
    /\ Len(hist.clears) = 2
    /\ status.last_success_at # None
    /\ tasks[Caller].pc = "idle"

\* after a refresh and two clear_cache calls in a row, the next lookup of
\* the same service has its directory query in flight
C15_Witness ==
    /\ hist.after_clear
    /\ ncalls = 4
    /\ status.last_success_at # None
    /\ tasks[Caller].pc = "query"
    /\ nqueries = 2
    /\ cache = EmptyMap

\* ---------------------------------------------------------------------
\* C16  frame of clear_cache
\* ---------------------------------------------------------------------

\* the fields of the status that clear_cache is said to leave alone
OutsideCounters(st) ==
    <<st.last_error, st.failed_services, st.discovered_services,
      st.last_discovery_at, st.last_success_at>>

\* a step of clear_cache: its first lock section, or its second
ClearStep(t) ==
    \/ tasks[t].pc = "idle" /\ tasks'[t].pc = "clearing"
    \/ tasks[t].pc = "clearing" /\ tasks'[t].pc = "idle"

\* C16: every step of SapiDiscovery::clear_cache leaves last_error,
\* failed_services, discovered_services, last_discovery_at and
\* last_success_at as they were; it changes nothing of the engine but the
\* cache map, cache_hits and cache_misses.
C16_ClearCacheFrame ==
    [][\A t \in Tasks :
          ClearStep(t) =>
              /\ OutsideCounters(status') = OutsideCounters(status)
              /\ UNCHANGED <<dconfig, now, nqueries>>
              /\ tasks[t].pc = "idle" => status' = status
              /\ tasks[t].pc = "clearing" => cache' = cache]_vars

\* a clear_cache call has returned on an engine whose status had an error,
\* a failed service, a discovery count and both timestamps; they are all
\* still there, with an empty cache and counters at zero
C16_Witness ==
    /\ hist.on /\ hist.counting
    /\ hist.clears # <<>>
    /\ tasks[Caller].pc = "idle"
    /\ cache = EmptyMap
    /\ status.cache_hits = 0 /\ status.cache_misses = 0
    /\ status.last_error # None
    /\ status.failed_services # <<>>
    /\ status.discovered_services > 0
    /\ status.last_discovery_at # None
    /\ status.last_success_at # None

(***************************************************************************)
(* The owners of a DiscoveryStatus outside the lookup of SapiDiscovery     *)
(*   "value"  a DiscoveryStatus built with with_success / with_error       *)
(*   "sapi"   the status of a SapiDiscovery, through its two recorders     *)
(*   "proxy"  ServiceDiscoveryProxy, which the per-service wrappers        *)
(*            (PapiDiscovery, ImgapiDiscovery, FwapiDiscovery, ...) hold   *)
(*   "napi"   NapiDiscovery                                                *)
(*   "cnapi"  CnapiDiscovery                                               *)
(* The three wrappers delegate to an inner ServiceDiscovery, of which      *)
(* nothing is assumed: it answers any call with any result.                *)
(***************************************************************************)
MaxWrapCalls == 3

WrapKinds == {"value", "sapi", "proxy", "napi", "cnapi"}
Wrappers == {"proxy", "napi", "cnapi"}

\* the names callers ask for
WrapNames == {"vmapi", "papi"}

\* what the inner discovery may answer
WrapEndpointLists == {<<>>} \cup EndpointLists
WrapErrors == {"DiscoveryFailed", "ServiceUnavailable"}
WrapOutcomes ==
    {OkEndpoints(e) : e \in WrapEndpointLists} \cup {ErrOf(e) : e \in WrapErrors}

\* a with_success that keeps the error of an earlier failure
with_success_keeping_error(st, service_count, t) ==
    [st EXCEPT !.last_discovery_at = Some(t),
               !.last_success_at = Some(t),
               !.discovered_services = service_count]

\* DiscoveryStatus::with_success (services.rs:115-122)
with_success(st, service_count, t) ==
    [st EXCEPT !.last_discovery_at = Some(t),
               !.last_success_at = Some(t),
               !.discovered_services = service_count,
               !.last_error = None]

\* DiscoveryStatus::with_error (services.rs:126-133)
with_error(st, error, failed_service, t) ==
    [st EXCEPT !.last_discovery_at = Some(t),
               !.last_error = Some(error),
               !.failed_services =
                   IF failed_service # None THEN Append(@, failed_service[1])
                   ELSE @]

\* ServiceDiscoveryProxy::record_success (services.rs:245-249)
proxy_record_success(st, count, t) == with_success(st, count, t)

\* ServiceDiscoveryProxy::record_error (services.rs:251-255)
proxy_record_error(st, error) == [st EXCEPT !.last_error = Some(error)]

\* NapiDiscovery::record_success (triton-napi client.rs:374-378)
napi_record_success(st, count, t) == with_success(st, count, t)

\* NapiDiscovery::record_error (triton-napi client.rs:380-384)
napi_record_error(st, error) == [st EXCEPT !.last_error = Some(error)]

\* CnapiDiscovery::record_success (triton-cnapi client.rs:352-358)
cnapi_record_success(st, service, count, t) ==
    [with_success(st, count, t) EXCEPT !.failed_services = retain_not(@, service)]

\* CnapiDiscovery::record_error (triton-cnapi client.rs:360-370)
cnapi_record_error(st, service, error, t) ==
    [st EXCEPT !.last_discovery_at = Some(t),
               !.last_error = IF error # None THEN error ELSE @,
               !.failed_services =
                   IF \E i \in 1..Len(@) : @[i] = service THEN @
                   ELSE Append(@, service)]

\* the proxy's own service name passed on instead of the requested one
own_service_name(service_name, own) == own

\* the argument of inner.discover_service(service_name) (services.rs:267)
inner_argument(service_name, own) == service_name

\* a caller that is not inside a call of a wrapper
IdleWrapTask ==
    [pc |-> "idle", name |-> "", passed |-> <<>>, inner |-> NotReturned,
     result |-> NotReturned]

\* construction of the owner (services.rs:231-237, DiscoveryStatus::new)
InitWrap ==
    /\ overflow_checks = TRUE
    /\ wkind \in WrapKinds
    /\ wown \in WrapNames
    /\ wstatus = DiscoveryStatus_new
    /\ wnow = 0
    /\ wtasks = [t \in Tasks |-> IdleWrapTask]
    /\ wcalls = 0
    /\ BIdle
    /\ EIdle
    /\ DIdle
    /\ PIdle
    /\ AIdle
    /\ LIdle
    /\ SIdle
    /\ XIdle
    /\ NIdle

\* discover_service(service_name) of a wrapper begins: it calls the inner
\* discovery and awaits it (services.rs:266-267, napi client.rs:389-390,
\* cnapi client.rs:309-312)
WrapDiscover(t, service_name) ==
    /\ wkind \in Wrappers
    /\ wtasks[t].pc = "idle"
    /\ wcalls < MaxWrapCalls
    /\ wcalls' = wcalls + 1
    /\ wtasks' = [wtasks EXCEPT ![t] =
                     [IdleWrapTask EXCEPT
                         !.pc = "inner",
                         !.name = service_name,
                         !.passed = <<inner_argument(service_name, wown)>>]]
    /\ UNCHANGED <<overflow_checks, xvars, nest, lvars, svars, avars, pvars, bvars, evars, dvars, wkind, wown, wstatus, wnow>>

\* the inner discovery answers; the wrapper records the outcome in its own
\* status and returns the answer (services.rs:268-276, napi client.rs:391-399,
\* cnapi client.rs:313-327)
WrapInnerReturns(t, out) ==
    /\ wtasks[t].pc = "inner"
    /\ wstatus' =
           IF out.kind = "ok"
           THEN CASE wkind = "proxy" -> proxy_record_success(wstatus, Len(out.val), wnow)
                  [] wkind = "napi" -> napi_record_success(wstatus, Len(out.val), wnow)
                  [] wkind = "cnapi" ->
                         cnapi_record_success(wstatus, wtasks[t].name, Len(out.val), wnow)
           ELSE CASE wkind = "proxy" -> proxy_record_error(wstatus, out.err)
                  [] wkind = "napi" -> napi_record_error(wstatus, out.err)
                  [] wkind = "cnapi" ->
                         cnapi_record_error(wstatus, wtasks[t].name, Some(out.err), wnow)
    /\ wtasks' = [wtasks EXCEPT ![t] =
                     [@ EXCEPT !.pc = "idle", !.inner = out, !.result = out]]
    /\ UNCHANGED <<overflow_checks, xvars, nest, lvars, svars, avars, pvars, bvars, evars, dvars, wkind, wown, wnow, wcalls>>

\* discover_all_services of a wrapper begins: the inner discovery is asked
\* for the wrapper's own service (services.rs:279-281)
WrapDiscoverAll(t) ==
    /\ wkind \in Wrappers
    /\ wtasks[t].pc = "idle"
    /\ wcalls < MaxWrapCalls
    /\ wcalls' = wcalls + 1
    /\ wtasks' = [wtasks EXCEPT ![t] =
                     [IdleWrapTask EXCEPT
                         !.pc = "inner_all",
                         !.name = wown,
                         !.passed = <<wown>>]]
    /\ UNCHANGED <<overflow_checks, xvars, nest, lvars, svars, avars, pvars, bvars, evars, dvars, wkind, wown, wstatus, wnow>>

\* ... and returns the inner's answer; nothing is recorded
WrapAllReturns(t, out) ==
    /\ wtasks[t].pc = "inner_all"
    /\ wtasks' = [wtasks EXCEPT ![t] =
                     [@ EXCEPT !.pc = "idle", !.inner = out, !.result = out]]
    /\ UNCHANGED <<overflow_checks, xvars, nest, lvars, svars, avars, pvars, bvars, evars, dvars, wkind, wown, wstatus, wnow, wcalls>>

\* clear_cache of a wrapper (services.rs:290-295)
WrapClearCache ==
    /\ wkind \in Wrappers
    /\ wcalls < MaxWrapCalls
    /\ wcalls' = wcalls + 1
    /\ wstatus' = clear_counters(wstatus)
    /\ UNCHANGED <<overflow_checks, xvars, nest, lvars, svars, avars, pvars, bvars, evars, dvars, wkind, wown, wnow, wtasks>>

\* status = status.with_error(error, failed_service)
StatusWithError(error, failed_service) ==
    /\ wkind = "value"
    /\ wcalls < MaxWrapCalls
    /\ wcalls' = wcalls + 1
    /\ wstatus' = with_error(wstatus, error, failed_service, wnow)
    /\ UNCHANGED <<overflow_checks, xvars, nest, lvars, svars, avars, pvars, bvars, evars, dvars, wkind, wown, wnow, wtasks>>

\* status = status.with_success(service_count)
StatusWithSuccess(service_count) ==
    /\ wkind = "value"
    /\ wcalls < MaxWrapCalls
    /\ wcalls' = wcalls + 1
    /\ wstatus' = with_success(wstatus, service_count, wnow)
    /\ UNCHANGED <<overflow_checks, xvars, nest, lvars, svars, avars, pvars, bvars, evars, dvars, wkind, wown, wnow, wtasks>>

\* SapiDiscovery::record_error(service, error) on its status
SapiRecordError(service, error) ==
    /\ wkind = "sapi"
    /\ wcalls < MaxWrapCalls
    /\ wcalls' = wcalls + 1
    /\ wstatus' = record_error(wstatus, service, error, wnow)
    /\ UNCHANGED <<overflow_checks, xvars, nest, lvars, svars, avars, pvars, bvars, evars, dvars, wkind, wown, wnow, wtasks>>

\* SapiDiscovery::record_success(service, count) on its status
SapiRecordSuccess(service, count) ==
    /\ wkind = "sapi"
    /\ wcalls < MaxWrapCalls
    /\ wcalls' = wcalls + 1
    /\ wstatus' = record_success(wstatus, service, count, wnow)
    /\ UNCHANGED <<overflow_checks, xvars, nest, lvars, svars, avars, pvars, bvars, evars, dvars, wkind, wown, wnow, wtasks>>

\* the clock advances
WrapTick ==
    /\ wnow < MaxTime
    /\ wnow' = wnow + 1
    /\ UNCHANGED <<overflow_checks, xvars, nest, lvars, svars, avars, pvars, bvars, evars, dvars, wkind, wown, wstatus, wtasks, wcalls>>

NextWrap ==
    \/ \E t \in Tasks, n \in WrapNames : WrapDiscover(t, n)
    \/ \E t \in Tasks, out \in WrapOutcomes : WrapInnerReturns(t, out)
    \/ \E t \in Tasks : WrapDiscoverAll(t)
    \/ \E t \in Tasks, out \in WrapOutcomes : WrapAllReturns(t, out)
    \/ WrapClearCache
    \/ \E e \in WrapErrors, f \in {None} \cup {Some(n) : n \in WrapNames} :
           StatusWithError(e, f)
    \/ \E c \in 0..2 : StatusWithSuccess(c)
    \/ \E n \in WrapNames, e \in {None} \cup {Some(x) : x \in WrapErrors} :
           SapiRecordError(n, e)
    \/ \E n \in WrapNames, c \in 0..2 : SapiRecordSuccess(n, c)
    \/ WrapTick

SpecWrap == InitWrap /\ [][NextWrap]_vars

\* ---------------------------------------------------------------------
\* C17  failed_services holds each name at most once
\* ---------------------------------------------------------------------

NoDuplicates(list) ==
    \A i, j \in 1..Len(list) : list[i] = list[j] => i = j

\* C17: in every reachable DiscoveryStatus, whichever way the failures and
\* successes were recorded, failed_services contains each service name at
\* most once.
C17_FailedServicesDistinct == NoDuplicates(wstatus.failed_services)

\* the same, for every owner that does not go through with_error
FailedServicesDistinctInOwners ==
    wkind # "value" => NoDuplicates(wstatus.failed_services)

\* two failures of one service have been recorded by an owner that keeps
\* the list
TwoFailuresRecordedExample ==
    /\ wkind \in {"sapi", "cnapi"}
    /\ wcalls >= 2
    /\ wstatus.failed_services = <<"vmapi">>
    /\ wstatus.last_error = Some("DiscoveryFailed")
    /\ wstatus.last_discovery_at = Some(1)

\* ---------------------------------------------------------------------
\* C18  a discover_service that returns Err leaves its mark in the status
\* ---------------------------------------------------------------------

\* the step in which t's discover_service call on the wrapper returns
WrapReturns(t) == wtasks[t].pc = "inner" /\ wtasks'[t].pc = "idle"

\* C18: when a discover_service call returns Err, the status of the source
\* it was made on has last_error set and holds the requested service name
\* in failed_services.
C18_ErrIsRecorded ==
    [][\A t \in Tasks :
          WrapReturns(t) /\ wtasks'[t].result.kind = "err" =>
              /\ wstatus'.last_error # None
              /\ Contains(wstatus'.failed_services, wtasks'[t].name)]_vars

\* the same, for CnapiDiscovery alone
ErrIsRecordedByCnapi ==
    [][\A t \in Tasks :
          wkind = "cnapi" /\ WrapReturns(t) /\ wtasks'[t].result.kind = "err" =>
              /\ wstatus'.last_error = Some(wtasks'[t].result.err)
              /\ Contains(wstatus'.failed_services, wtasks'[t].name)]_vars

\* a CnapiDiscovery call has returned Err and the status holds its mark
ErrIsRecordedExample ==
    /\ wkind = "cnapi"
    /\ \E t \in Tasks :
           /\ wtasks[t].pc = "idle"
           /\ wtasks[t].result = ErrOf("DiscoveryFailed")
           /\ wtasks[t].name = "papi"
           /\ wstatus.last_error = Some("DiscoveryFailed")
           /\ wstatus.failed_services = <<"vmapi", "papi">>

\* ---------------------------------------------------------------------
\* C19  what the proxy records on success
\* ---------------------------------------------------------------------

\* C19: when ServiceDiscoveryProxy::discover_service returns Ok(endpoints),
\* the proxy's own status has discovered_services equal to the number of
\* endpoints returned, no last_error, and last_success_at and
\* last_discovery_at set.
C19_ProxySuccessRecorded ==
    [][\A t \in Tasks :
          wkind = "proxy" /\ WrapReturns(t) /\ wtasks'[t].result.kind = "ok" =>
              /\ wstatus'.discovered_services = Len(wtasks'[t].result.val)
              /\ wstatus'.last_error = None
              /\ wstatus'.last_success_at # None
              /\ wstatus'.last_discovery_at # None]_vars

\* a proxy call has returned two endpoints after an earlier call failed,
\* and the status shows the success
C19_Witness ==
    /\ wkind = "proxy"
    /\ wcalls >= 2
    /\ wtasks["t1"].pc = "idle" /\ wtasks["t1"].result.kind = "err"
    /\ wtasks["t2"].pc = "idle" /\ wtasks["t2"].result.kind = "ok"
    /\ Len(wtasks["t2"].result.val) = 2
    /\ wstatus.discovered_services = 2
    /\ wstatus.last_error = None
    /\ wstatus.last_success_at = Some(1)
    /\ wstatus.last_discovery_at = Some(1)

\* ---------------------------------------------------------------------
\* C20  the proxy is transparent
\* ---------------------------------------------------------------------

\* C20: ServiceDiscoveryProxy::discover_service calls inner.discover_service
\* exactly once, with the name it was given, and returns exactly what the
\* inner discovery returned: the same endpoints in the same order, or the
\* same error.
C20_ProxyTransparent ==
    [][\A t \in Tasks :
          wkind = "proxy" /\ WrapReturns(t) =>
              /\ wtasks'[t].passed = <<wtasks'[t].name>>
              /\ wtasks'[t].result = wtasks'[t].inner
              /\ wtasks'[t].inner # NotReturned]_vars

\* a proxy for one service was asked for another; the inner discovery got
\* that one call, and its two endpoints came back in order
C20_Witness ==
    /\ wkind = "proxy"
    /\ \E t \in Tasks :
           /\ wtasks[t].pc = "idle"
           /\ wtasks[t].name = "vmapi" /\ wown = "papi"
           /\ wtasks[t].passed = <<"vmapi">>
           /\ wtasks[t].inner = OkEndpoints(<<"http://10.0.0.1:80", "http://10.0.0.2:80">>)
           /\ wtasks[t].result = wtasks[t].inner

(***************************************************************************)
(* Several proxies over one shared inner source                            *)
(*                                                                         *)
(* A proxy handle holds an Arc to the inner source, an Arc to its status   *)
(* and its service name (services.rs:222-227).  ServiceDiscoveryProxy::new *)
(* allocates a status of its own; the derived Clone copies the two Arcs,   *)
(* so a clone reports into the status of the handle it was cloned from.    *)
(* The inner source is one with a cache and a status of its own, as        *)
(* SapiDiscovery is; its entries do not expire here.                       *)
(***************************************************************************)
MaxProxyOps == 4

MaxProxyTime == 1

\* the handles, in the order in which they come into being
Proxies == {"a", "b", "c"}
Earlier(p) == IF p = "a" THEN {} ELSE IF p = "b" THEN {"a"} ELSE {"a", "b"}

\* the endpoints the inner source may know of a service
ServiceEndpoints(service) ==
    {<<[service |-> service, host |-> 1]>>,
     <<[service |-> service, host |-> 1], [service |-> service, host |-> 2]>>}

\* what the inner source may answer to discover_service(service)
InnerOutcomes(service) ==
    {OkEndpoints(e) : e \in ServiceEndpoints(service)} \cup {ErrOf("DiscoveryFailed")}

\* a handle that has not been created
NoProxy ==
    [cell |-> 0, origin |-> 0, own |-> "", pc |-> "none", name |-> "",
     call |-> <<>>, inner |-> NotReturned, result |-> NotReturned, seen |-> None]

NoAct == [proxy |-> "", op |-> "none"]

\* a new that reports into the first status ever allocated
first_cell(cells) == 1

\* Arc::new(RwLock::new(DiscoveryStatus::new())) (services.rs:234): the
\* place of the status allocated by this new
fresh_cell(cells) == Len(cells) + 1

\* a clear_cache that resets the whole status of the proxy
proxy_reset_status(st) == DiscoveryStatus_new

\* ServiceDiscoveryProxy::clear_cache on its status (services.rs:291-294)
proxy_clear_cache(st) == [st EXCEPT !.cache_hits = 0, !.cache_misses = 0]

\* a call that asks the inner source for every service
enumerate_call(own) == <<"discover_all_services", "">>

\* self.inner.discover_service(&self.service_name) (services.rs:280)
discover_all_call(own) == <<"discover_service", own>>

\* self.inner.discover_service(service_name) (services.rs:267)
discover_call(service_name, own) == <<"discover_service", inner_argument(service_name, own)>>

\* the inner source serves discover_service(service) with the answer out:
\* from its cache if it has the key, else by a refresh it records
inner_discover_service(inner, service, out, t) ==
    IF service \in inner.cache
    THEN [inner EXCEPT !.status = record_hit(@)]
    ELSE IF out.kind = "ok"
         THEN [cache |-> inner.cache \cup {service},
               status |-> record_success(inner.status, service, Len(out.val), t)]
         ELSE [inner EXCEPT !.status = record_error(@, service, Some(out.err), t)]

\* clear_cache of the inner source
inner_clear_cache(inner) == [cache |-> {}, status |-> clear_counters(inner.status)]

\* the status a handle reports
StatusOf(proxies, cells, p) == cells[proxies[p].cell]

\* the inner source exists; no proxy has been created yet
InitProxies ==
    /\ overflow_checks = TRUE
    /\ pproxies = [p \in Proxies |-> NoProxy]
    /\ pcells = <<>>
    /\ pinner = [cache |-> {}, status |-> DiscoveryStatus_new]
    /\ pilog = <<>>
    /\ pclock = 0
    /\ pops = 0
    /\ pact = NoAct
    /\ BIdle
    /\ EIdle
    /\ DIdle
    /\ WIdle
    /\ AIdle
    /\ LIdle
    /\ SIdle
    /\ XIdle
    /\ NIdle

\* p = ServiceDiscoveryProxy::new(inner, own) (services.rs:231-237)
ProxyNew(p, own) ==
    /\ pproxies[p].cell = 0
    /\ \A q \in Earlier(p) : pproxies[q].cell # 0
    /\ pops < MaxProxyOps
    /\ pops' = pops + 1
    /\ pcells' = Append(pcells, DiscoveryStatus_new)
    /\ pproxies' = [pproxies EXCEPT ![p] =
                       [NoProxy EXCEPT !.cell = fresh_cell(pcells),
                                       !.origin = Len(pcells) + 1,
                                       !.own = own,
                                       !.pc = "idle"]]
    /\ pact' = [proxy |-> p, op |-> "new"]
    /\ UNCHANGED <<overflow_checks, xvars, nest, lvars, svars, avars, bvars, evars, dvars, wvars, pinner, pilog, pclock>>

\* p = q.clone() (#[derive(Clone)], services.rs:221)
ProxyClone(p, q) ==
    /\ pproxies[p].cell = 0
    /\ \A r \in Earlier(p) : pproxies[r].cell # 0
    /\ pproxies[q].cell # 0
    /\ pops < MaxProxyOps
    /\ pops' = pops + 1
    /\ pproxies' = [pproxies EXCEPT ![p] =
                       [NoProxy EXCEPT !.cell = pproxies[q].cell,
                                       !.origin = pproxies[q].origin,
                                       !.own = pproxies[q].own,
                                       !.pc = "idle"]]
    /\ pact' = [proxy |-> p, op |-> "clone"]
    /\ UNCHANGED <<overflow_checks, xvars, nest, lvars, svars, avars, bvars, evars, dvars, wvars, pcells, pinner, pilog, pclock>>

\* p.discover_service(service_name) begins: the inner source is called
\* (services.rs:266-267)
ProxyDiscover(p, service_name) ==
    /\ pproxies[p].pc = "idle"
    /\ pops < MaxProxyOps
    /\ pops' = pops + 1
    /\ pproxies' = [pproxies EXCEPT ![p] =
                       [@ EXCEPT !.pc = "inner",
                                 !.name = service_name,
                                 !.call = discover_call(service_name, pproxies[p].own),
                                 !.inner = NotReturned,
                                 !.result = NotReturned]]
    /\ pilog' = Append(pilog, discover_call(service_name, pproxies[p].own))
    /\ pact' = [proxy |-> p, op |-> "discover_service"]
    /\ UNCHANGED <<overflow_checks, xvars, nest, lvars, svars, avars, bvars, evars, dvars, wvars, pcells, pinner, pclock>>

\* p.discover_all_services() begins: the inner source is called
\* (services.rs:279-280)
ProxyDiscoverAll(p) ==
    /\ pproxies[p].pc = "idle"
    /\ pops < MaxProxyOps
    /\ pops' = pops + 1
    /\ pproxies' = [pproxies EXCEPT ![p] =
                       [@ EXCEPT !.pc = "inner_all",
                                 !.name = pproxies[p].own,
                                 !.call = discover_all_call(pproxies[p].own),
                                 !.inner = NotReturned,
                                 !.result = NotReturned]]
    /\ pilog' = Append(pilog, discover_all_call(pproxies[p].own))
    /\ pact' = [proxy |-> p, op |-> "discover_all_services"]
    /\ UNCHANGED <<overflow_checks, xvars, nest, lvars, svars, avars, bvars, evars, dvars, wvars, pcells, pinner, pclock>>

\* the answers the inner source may give to a call
AnswersTo(call) ==
    IF call[1] = "discover_service" THEN InnerOutcomes(call[2])
    ELSE {OkEndpoints(e \o f) : e \in ServiceEndpoints("vmapi"), f \in ServiceEndpoints("papi")}

AllAnswers ==
    UNION {AnswersTo(<<m, n>>) : m \in {"discover_service", "discover_all_services"},
                                 n \in WrapNames}

\* the inner source serves the call of p and answers it; discover_service
\* records the answer in the status of p and returns it (services.rs:268-276),
\* discover_all_services returns it (services.rs:280)
ProxyInnerAnswers(p, out) ==
    /\ pproxies[p].pc \in {"inner", "inner_all"}
    /\ out \in AnswersTo(pproxies[p].call)
    /\ pproxies[p].call[1] = "discover_service" /\ pproxies[p].call[2] \in pinner.cache
           => out.kind = "ok"
    /\ pinner' = IF pproxies[p].call[1] = "discover_service"
                 THEN inner_discover_service(pinner, pproxies[p].call[2], out, pclock)
                 ELSE pinner
    /\ pcells' = IF pproxies[p].pc = "inner"
                 THEN [pcells EXCEPT ![pproxies[p].cell] =
                          IF out.kind = "ok"
                          THEN proxy_record_success(@, Len(out.val), pclock)
                          ELSE proxy_record_error(@, out.err)]
                 ELSE pcells
    /\ pproxies' = [pproxies EXCEPT ![p] =
                       [@ EXCEPT !.pc = "idle", !.inner = out, !.result = out]]
    /\ pact' = [proxy |-> p,
                op |-> IF pproxies[p].pc = "inner" THEN "discover_service returns"
                       ELSE "discover_all_services returns"]
    /\ UNCHANGED <<overflow_checks, xvars, nest, lvars, svars, avars, bvars, evars, dvars, wvars, pilog, pclock, pops>>

\* p.get_status() (services.rs:283-288)
ProxyGetStatus(p) ==
    /\ pproxies[p].pc = "idle"
    /\ pops < MaxProxyOps
    /\ pops' = pops + 1
    /\ pproxies' = [pproxies EXCEPT ![p] =
                       [@ EXCEPT !.seen = Some(StatusOf(pproxies, pcells, p))]]
    /\ pact' = [proxy |-> p, op |-> "get_status"]
    /\ UNCHANGED <<overflow_checks, xvars, nest, lvars, svars, avars, bvars, evars, dvars, wvars, pcells, pinner, pilog, pclock>>

\* p.clear_cache() (services.rs:290-295)
ProxyClearCache(p) ==
    /\ pproxies[p].pc = "idle"
    /\ pops < MaxProxyOps
    /\ pops' = pops + 1
    /\ pcells' = [pcells EXCEPT ![pproxies[p].cell] = proxy_clear_cache(@)]
    /\ pact' = [proxy |-> p, op |-> "clear_cache"]
    /\ UNCHANGED <<overflow_checks, xvars, nest, lvars, svars, avars, bvars, evars, dvars, wvars, pproxies, pinner, pilog, pclock>>

\* a holder of the inner source calls its clear_cache directly
InnerClearCache ==
    /\ pops < MaxProxyOps
    /\ pops' = pops + 1
    /\ pinner' = inner_clear_cache(pinner)
    /\ pilog' = Append(pilog, <<"clear_cache", "">>)
    /\ pact' = [proxy |-> "", op |-> "inner clear_cache"]
    /\ UNCHANGED <<overflow_checks, xvars, nest, lvars, svars, avars, bvars, evars, dvars, wvars, pproxies, pcells, pclock>>

\* the clock advances
ProxyTick ==
    /\ pclock < MaxProxyTime
    /\ pclock' = pclock + 1
    /\ pact' = NoAct
    /\ UNCHANGED <<overflow_checks, xvars, nest, lvars, svars, avars, bvars, evars, dvars, wvars, pproxies, pcells, pinner,
                   pilog, pops>>

NextProxies ==
    \/ \E p \in Proxies, own \in WrapNames : ProxyNew(p, own)
    \/ \E p, q \in Proxies : ProxyClone(p, q)
    \/ \E p \in Proxies, n \in WrapNames : ProxyDiscover(p, n)
    \/ \E p \in Proxies : ProxyDiscoverAll(p)
    \/ \E p \in Proxies, out \in AllAnswers : ProxyInnerAnswers(p, out)
    \/ \E p \in Proxies : ProxyGetStatus(p)
    \/ \E p \in Proxies : ProxyClearCache(p)
    \/ InnerClearCache
    \/ ProxyTick

SpecProxies == InitProxies /\ [][NextProxies]_vars

\* ---------------------------------------------------------------------
\* C21  proxies over one inner source keep separate telemetry
\* ---------------------------------------------------------------------

\* q exists and was not made by the same new as p, nor cloned from it
SeparatelyCreated(p, q) ==
    /\ pproxies[q].cell # 0
    /\ pproxies'[p].cell # 0
    /\ pproxies'[q].origin # pproxies'[p].origin

\* the step is the inner source serving the call that p delegated to it
DelegatedCallServed(p) ==
    /\ pact'.op \in {"discover_service returns", "discover_all_services returns"}
    /\ pproxies[p].call[1] = "discover_service"
    /\ pinner' = inner_discover_service(pinner, pproxies[p].call[2],
                                        pproxies'[p].inner, pclock)

\* C21: an operation on a proxy leaves the DiscoveryStatus of every other
\* separately created proxy as it was, and the inner source changes in
\* that operation only by serving the call the proxy delegated to it.
C21_IndependentTelemetry ==
    [][\A p \in Proxies :
          pact'.proxy = p =>
              /\ \A q \in Proxies :
                     SeparatelyCreated(p, q) =>
                         StatusOf(pproxies', pcells', q) = StatusOf(pproxies, pcells, q)
              /\ pinner' # pinner => DelegatedCallServed(p)]_vars

\* two proxies made by two news: the second has recorded a success, then a
\* call on the first failed; each status shows its own call only
C21_Witness ==
    /\ pproxies["a"].cell # 0 /\ pproxies["b"].cell # 0
    /\ pproxies["a"].origin # pproxies["b"].origin
    /\ pact = [proxy |-> "a", op |-> "discover_service returns"]
    /\ pproxies["a"].result.kind = "err"
    /\ StatusOf(pproxies, pcells, "a").last_error # None
    /\ StatusOf(pproxies, pcells, "a").discovered_services = 0
    /\ StatusOf(pproxies, pcells, "b").last_error = None
    /\ StatusOf(pproxies, pcells, "b").discovered_services = 2
    /\ pinner.status.last_error # None

\* ---------------------------------------------------------------------
\* C22  discover_all_services of a proxy is a lookup of its own service
\* ---------------------------------------------------------------------

\* C22: when ServiceDiscoveryProxy::discover_all_services returns, the one
\* call it made was inner.discover_service(own service name) and its result
\* is the inner source's answer to that call; the inner source is never
\* asked for discover_all_services, and no endpoint of another service is
\* returned.
C22_DiscoverAllIsOwnService ==
    [][\A p \in Proxies :
          pact'.proxy = p /\ pact'.op = "discover_all_services returns" =>
              /\ pproxies[p].call = <<"discover_service", pproxies[p].own>>
              /\ pproxies'[p].result = pproxies'[p].inner
              /\ pproxies'[p].inner \in InnerOutcomes(pproxies[p].own)
              /\ \A i \in 1..Len(pilog') : pilog'[i][1] # "discover_all_services"
              /\ \A i \in 1..Len(pproxies'[p].result.val) :
                     pproxies'[p].result.val[i].service = pproxies[p].own]_vars

\* a proxy for papi returned the two papi endpoints from
\* discover_all_services while the inner source also knew vmapi
C22_Witness ==
    \E p \in Proxies :
        /\ pact = [proxy |-> p, op |-> "discover_all_services returns"]
        /\ pproxies[p].own = "papi"
        /\ pproxies[p].result =
               OkEndpoints(<<[service |-> "papi", host |-> 1],
                             [service |-> "papi", host |-> 2]>>)
        /\ pinner.cache = {"vmapi", "papi"}
        /\ pilog = <<<<"discover_service", "vmapi">>, <<"discover_service", "papi">>>>

\* ---------------------------------------------------------------------
\* C23  frame of the proxy's clear_cache
\* ---------------------------------------------------------------------

\* C23: ServiceDiscoveryProxy::clear_cache sets the proxy's own cache_hits
\* and cache_misses to 0 and changes nothing else: the inner source gets no
\* call, its cache and its status stay as they were, and the proxy's
\* last_error, discovered_services and failed_services are unchanged.
C23_ProxyClearCacheFrame ==
    [][\A p \in Proxies :
          pact'.proxy = p /\ pact'.op = "clear_cache" =>
              /\ StatusOf(pproxies', pcells', p).cache_hits = 0
              /\ StatusOf(pproxies', pcells', p).cache_misses = 0
              /\ OutsideCounters(StatusOf(pproxies', pcells', p))
                     = OutsideCounters(StatusOf(pproxies, pcells, p))
              /\ pinner' = pinner
              /\ pilog' = pilog
              /\ pproxies' = pproxies]_vars

\* clear_cache was called on a proxy that had recorded a success and then a
\* failure, over an inner source with a cached service; both are intact
C23_Witness ==
    \E p \in Proxies :
        /\ pact = [proxy |-> p, op |-> "clear_cache"]
        /\ StatusOf(pproxies, pcells, p).last_error = Some("DiscoveryFailed")
        /\ StatusOf(pproxies, pcells, p).discovered_services = 2
        /\ StatusOf(pproxies, pcells, p).last_success_at # None
        /\ pinner.cache # {}
        /\ pinner.status.cache_misses = 1
        /\ Len(pilog) = 2

(***************************************************************************)
(* SapiDiscovery::discover_all_services (client.rs:642-650)                *)
(*                                                                         *)
(* One caller runs the loop over TritonService::all(); each round is a     *)
(* discover_service call of the lookup modelled above.  The list of        *)
(* services is cut to its first MaxAllServices entries.                    *)
(***************************************************************************)
MaxAllServices == 2

\* TritonService::all() by name (types.rs:68-81)
TritonService_all ==
    <<"vmapi", "cnapi", "napi", "imgapi", "papi", "fwapi", "sapi", "ufds", "amon",
      "workflow">>

AllServices == SubSeq(TritonService_all, 1, Min(MaxAllServices, Len(TritonService_all)))

\* a loop that starts over when a service fails
collect_restarting(endpoints, discovered) ==
    IF discovered.kind = "ok" THEN endpoints \o discovered.val ELSE <<>>

\* if let Ok(mut discovered) = ... { endpoints.append(&mut discovered) }
\* (client.rs:645-647)
collect(endpoints, discovered) ==
    IF discovered.kind = "ok" THEN endpoints \o discovered.val ELSE endpoints

\* discover_all_services has not been called
NoLoop == [pc |-> "idle", i |-> 1, endpoints |-> <<>>, results |-> <<>>,
           result |-> NotReturned]

\* SapiDiscovery::new over any configuration, retry_attempts = u32::MAX
\* included
InitAll ==
    /\ overflow_checks \in BOOLEAN
    /\ enabled \in BOOLEAN
    /\ ttl \in TtlChoices
    /\ retry_attempts \in RetryAttemptChoices \cup {U32Max}
    /\ fallback \in {build_fallback_map(c) : c \in ServiceEndpointsChoices}
    /\ retry_policy \in {RetryPolicy_new, NoDelayPolicy}
    /\ now = 0
    /\ cache = EmptyMap
    /\ status = DiscoveryStatus_new
    /\ tasks = [t \in Tasks |-> IdleTask]
    /\ ncalls = 0
    /\ nqueries = 0
    /\ budget = Len(AllServices)
    /\ hist = NoHistory
    /\ aloop = NoLoop
    /\ BIdle
    /\ EIdle
    /\ WIdle
    /\ PIdle
    /\ LIdle
    /\ SIdle
    /\ XIdle
    /\ NIdle

\* discover_all_services(): let mut endpoints = Vec::new() (client.rs:643)
AllBegin ==
    /\ aloop.pc = "idle"
    /\ aloop' = [NoLoop EXCEPT !.pc = "loop"]
    /\ UNCHANGED <<overflow_checks, xvars, nest, lvars, svars, bvars, evars, dvars, wvars, pvars>>

\* the loop calls self.discover_service(service.name()) for the next
\* service (client.rs:644-645)
AllDiscover ==
    /\ aloop.pc = "loop"
    /\ aloop.i <= Len(AllServices)
    /\ tasks[Caller] = IdleTask
    /\ Discover(Caller, AllServices[aloop.i])

\* the call has returned: its endpoints are appended if it is Ok, and the
\* loop moves on (client.rs:645-648); a panic inside the call ends the loop
AllCollect ==
    /\ aloop.pc = "loop"
    /\ tasks[Caller].pc = "idle"
    /\ tasks[Caller].result # NotReturned
    /\ aloop' = IF tasks[Caller].result.kind = "panic"
                THEN [aloop EXCEPT !.pc = "panicked"]
                ELSE [aloop EXCEPT
                         !.i = @ + 1,
                         !.endpoints = collect(@, tasks[Caller].result),
                         !.results = Append(@, tasks[Caller].result)]
    /\ tasks' = [tasks EXCEPT ![Caller] = IdleTask]
    /\ UNCHANGED <<overflow_checks, xvars, nest, lvars, svars, bvars, evars, wvars, pvars, dconfig, now, cache, status,
                   ncalls, nqueries, hist>>

\* Ok(endpoints) (client.rs:649)
AllReturn ==
    /\ aloop.pc = "loop"
    /\ aloop.i > Len(AllServices)
    /\ tasks[Caller] = IdleTask
    /\ aloop' = [aloop EXCEPT !.pc = "done", !.result = OkEndpoints(aloop.endpoints)]
    /\ UNCHANGED <<overflow_checks, xvars, nest, lvars, svars, bvars, evars, dvars, wvars, pvars>>

NextAll ==
    \/ AllBegin
    \/ AllDiscover
    \/ \E out \in QueryOutcomes : QueryReturns(Caller, out)
    \/ Wake(Caller)
    \/ CacheInsert(Caller)
    \/ AllCollect
    \/ AllReturn
    \/ Tick

SpecAll == InitAll /\ [][NextAll]_vars

\* ---------------------------------------------------------------------
\* C24  discover_all_services is best effort and always Ok
\* ---------------------------------------------------------------------

\* the endpoints of the successful results, in order
RECURSIVE ConcatOk(_)
ConcatOk(results) ==
    IF results = <<>> THEN <<>>
    ELSE (IF Head(results).kind = "ok" THEN Head(results).val ELSE <<>>)
         \o ConcatOk(Tail(results))

\* the call has returned Ok with exactly the endpoints of the services
\* whose discovery succeeded, in the order of TritonService::all()
BestEffortResult ==
    aloop.pc = "done" =>
        /\ aloop.result.kind = "ok"
        /\ Len(aloop.results) = Len(AllServices)
        /\ aloop.result.val = ConcatOk(aloop.results)

\* C24: SapiDiscovery::discover_all_services always returns Ok: the call
\* does not end otherwise, and its result is the concatenation, in
\* TritonService::all() order, of the endpoints of the services whose
\* discover_service succeeded; a failed service contributes nothing.
C24_DiscoverAllAlwaysOk ==
    /\ aloop.pc # "panicked"
    /\ BestEffortResult

\* the same, when retry_attempts is below u32::MAX
DiscoverAllOkBelowMax ==
    retry_attempts < U32Max => C24_DiscoverAllAlwaysOk

\* the first service failed after a retry, the second was found with two
\* endpoints, and the call returned those two
DiscoverAllSkipsFailureExample ==
    /\ aloop.pc = "done"
    /\ retry_attempts = 1
    /\ aloop.results[1].kind = "err" /\ aloop.results[1].err.req = 2
    /\ aloop.results[2].kind = "ok" /\ Len(aloop.results[2].val) = 2
    /\ aloop.result = OkEndpoints(aloop.results[2].val)

\* every service failed and the call returned Ok(empty)
DiscoverAllEmptyExample ==
    /\ aloop.pc = "done"
    /\ enabled
    /\ \A i \in 1..Len(aloop.results) : aloop.results[i].kind = "err"
    /\ aloop.result = OkEndpoints(<<>>)

\* ---------------------------------------------------------------------
\* C25  concurrent lookups of one key are not coalesced
\* ---------------------------------------------------------------------

\* the step in which t's discover_service call begins
LookupBegins(t) ==
    /\ tasks[t].pc = "idle"
    /\ ncalls' = ncalls + 1
    /\ tasks'[t] # tasks[t]
    /\ tasks'[t].pc # "clearing"

\* the cache holds no fresh entry for the key
NoFreshEntry(key) ==
    LET entry == map_get(cache, key)
    IN  entry = None \/ ~cache_entry_is_fresh(entry[1], now, ttl)

\* C25: a discover_service call on an enabled engine that finds no fresh
\* entry for a known key sends a directory query of its own, whatever the
\* other callers are doing, also one that already has a query for the same
\* key in flight; and a step of one call leaves the loop of every other
\* call where it was.
C25_NoCoalescing ==
    [][\A t \in Tasks :
          /\ LookupBegins(t) /\ enabled /\ parse_ok(tasks'[t].key)
                 /\ NoFreshEntry(tasks'[t].key)
              => /\ tasks'[t].pc = "query"
                 /\ tasks'[t].queries = 1
                 /\ nqueries' = nqueries + 1
          /\ tasks'[t] # tasks[t] => \A u \in Tasks \ {t} : tasks'[u] = tasks[u]]_vars

\* two calls for the same key are both waiting for a directory answer of
\* their own, one of them already in its second attempt
C25_Witness ==
    /\ tasks["t1"].pc = "query" /\ tasks["t2"].pc = "query"
    /\ tasks["t1"].key = tasks["t2"].key
    /\ tasks["t1"].queries = 2 /\ tasks["t1"].attempt = 1
    /\ tasks["t2"].queries = 1 /\ tasks["t2"].attempt = 0
    /\ nqueries = 3

\* both calls for the same key have run their retry loop to its end
BothLoopsCompletedExample ==
    /\ retry_attempts = 1
    /\ tasks["t1"].pc = "idle" /\ tasks["t2"].pc = "idle"
    /\ tasks["t1"].key = "vmapi" /\ tasks["t2"].key = "vmapi"
    /\ tasks["t1"].queries = 2 /\ tasks["t2"].queries = 2
    /\ tasks["t1"].result.kind = "err" /\ tasks["t2"].result.kind = "err"
    /\ nqueries = 4

(***************************************************************************)
(* The lock sections of SapiDiscovery                                      *)
(*                                                                         *)
(* cache and status are std::sync::RwLock (client.rs:520-527).  Here a     *)
(* call is followed guard by guard: where each guard is taken, how long it *)
(* lives, and where the call is suspended at an await.  The data behind    *)
(* the locks is left out: whether the entry read is fresh and what the     *)
(* directory answers are open choices.                                     *)
(*   lookup                 about to take cache.read() (631)               *)
(*   entry                  holds the read guard: a temporary of the       *)
(*                          `if let` at 631, alive to the end of it (637)  *)
(*   count_hit, hit_locked  fresh entry: status.write() is taken inside    *)
(*                          the `if let` (633-635)                         *)
(*   query                  awaiting discover_service_endpoints (547)      *)
(*   sleep                  awaiting sleep(delay) (568)                    *)
(*   record_success(_locked), insert(_locked)         549-558              *)
(*   record_error(_locked)                            574, 599-608         *)
(*   clear_map(_locked), clear_counters(_locked)      657-660              *)
(*   get_status(_locked)                              652-654              *)
(***************************************************************************)
MaxLockCalls == 3

LockRetryChoices == {0, 1}

FreeLock == [readers |-> {}, writers |-> {}]

\* RwLock::read / RwLock::write return at once
can_read(lock) == lock.writers = {}
can_write(lock) == lock.writers = {} /\ lock.readers = {}

acquire_read(lock, t) == [lock EXCEPT !.readers = @ \cup {t}]
acquire_write(lock, t) == [lock EXCEPT !.writers = @ \cup {t}]

\* a read guard that outlives the `if let`
keep_read(lock, t) == lock

\* the read guard is dropped
release_read(lock, t) == [lock EXCEPT !.readers = @ \ {t}]

\* the write guard is dropped
release_write(lock, t) == [lock EXCEPT !.writers = @ \ {t}]

\* where a write guard is taken: the lock, and the position holding it
WriteLockAt ==
    [count_hit |-> <<"status", "hit_locked">>,
     record_success |-> <<"status", "record_success_locked">>,
     insert |-> <<"cache", "insert_locked">>,
     record_error |-> <<"status", "record_error_locked">>,
     clear_map |-> <<"cache", "clear_map_locked">>,
     clear_counters |-> <<"status", "clear_counters_locked">>]

\* where a write guard is dropped: the lock, and the position that follows
WriteUnlockAt ==
    [hit_locked |-> <<"status", "idle">>,
     record_success_locked |-> <<"status", "insert">>,
     insert_locked |-> <<"cache", "idle">>,
     record_error_locked |-> <<"status", "idle">>,
     clear_map_locked |-> <<"cache", "clear_counters">>,
     clear_counters_locked |-> <<"status", "idle">>]

IdleLockTask == [pc |-> "idle", attempt |-> 0]

InitLocks ==
    /\ overflow_checks = TRUE
    /\ lenabled \in BOOLEAN
    /\ lretry \in LockRetryChoices
    /\ lk = [cache |-> FreeLock, status |-> FreeLock]
    /\ ltasks = [t \in Tasks |-> IdleLockTask]
    /\ lcalls = 0
    /\ BIdle
    /\ EIdle
    /\ DIdle
    /\ WIdle
    /\ PIdle
    /\ AIdle
    /\ SIdle
    /\ XIdle
    /\ NIdle

\* discover_service begins (client.rs:617-629): a disabled engine answers
\* from the fallback map, which no lock guards
LockDiscover(t) ==
    /\ ltasks[t].pc = "idle"
    /\ lcalls < MaxLockCalls
    /\ lcalls' = lcalls + 1
    /\ ltasks' = [ltasks EXCEPT ![t] =
                     [IdleLockTask EXCEPT !.pc = IF lenabled THEN "lookup" ELSE "idle"]]
    /\ UNCHANGED <<overflow_checks, xvars, nest, bvars, evars, dvars, wvars, pvars, avars, svars,
                   lenabled, lretry, lk>>

\* self.cache.read().unwrap() (client.rs:631)
LockCacheRead(t) ==
    /\ ltasks[t].pc = "lookup"
    /\ can_read(lk.cache)
    /\ lk' = [lk EXCEPT !.cache = acquire_read(@, t)]
    /\ ltasks' = [ltasks EXCEPT ![t].pc = "entry"]
    /\ UNCHANGED <<overflow_checks, xvars, nest, bvars, evars, dvars, wvars, pvars, avars, svars,
                   lenabled, lretry, lcalls>>

\* the entry is fresh: the hit is to be counted (client.rs:632-633)
LockHit(t) ==
    /\ ltasks[t].pc = "entry"
    /\ ltasks' = [ltasks EXCEPT ![t].pc = "count_hit"]
    /\ UNCHANGED <<overflow_checks, xvars, nest, bvars, evars, dvars, wvars, pvars, avars, svars,
                   lenabled, lretry, lk, lcalls>>

\* no fresh entry: the `if let` ends, and refresh_service either fails to
\* parse the name and returns, or sends its first query (client.rs:637-639,
\* 542-547)
LockMiss(t, known) ==
    /\ ltasks[t].pc = "entry"
    /\ lk' = [lk EXCEPT !.cache = release_read(@, t)]
    /\ ltasks' = [ltasks EXCEPT ![t].pc = IF known THEN "query" ELSE "idle"]
    /\ UNCHANGED <<overflow_checks, xvars, nest, bvars, evars, dvars, wvars, pvars, avars, svars,
                   lenabled, lretry, lcalls>>

\* the directory answers (client.rs:547-571); `attempt += 1` is u32
\* arithmetic, and a panic there ends the task with no guard alive
LockAnswer(t, ok, delayed) ==
    /\ ltasks[t].pc = "query"
    /\ LET next == add_u32(ltasks[t].attempt, 1, overflow_checks)
       IN  ltasks' = [ltasks EXCEPT ![t] =
                        IF ok THEN [@ EXCEPT !.pc = "record_success"]
                        ELSE IF next.panic
                             THEN [pc |-> "panicked", attempt |-> @.attempt]
                        ELSE IF next.val > lretry
                             THEN [pc |-> "record_error", attempt |-> next.val]
                        ELSE [pc |-> IF delayed THEN "sleep" ELSE "query",
                              attempt |-> next.val]]
    /\ UNCHANGED <<overflow_checks, xvars, nest, bvars, evars, dvars, wvars, pvars, avars, svars,
                   lenabled, lretry, lk, lcalls>>

\* sleep(delay).await completes (client.rs:568)
LockWake(t) ==
    /\ ltasks[t].pc = "sleep"
    /\ ltasks' = [ltasks EXCEPT ![t].pc = "query"]
    /\ UNCHANGED <<overflow_checks, xvars, nest, bvars, evars, dvars, wvars, pvars, avars, svars,
                   lenabled, lretry, lk, lcalls>>

\* a write guard is taken (client.rs:589, 550, 600, 633, 657, 658)
LockWrite(t) ==
    /\ ltasks[t].pc \in DOMAIN WriteLockAt
    /\ LET at == WriteLockAt[ltasks[t].pc]
       IN  /\ can_write(lk[at[1]])
           /\ lk' = [lk EXCEPT ![at[1]] = acquire_write(@, t)]
           /\ ltasks' = [ltasks EXCEPT ![t].pc = at[2]]
    /\ UNCHANGED <<overflow_checks, xvars, nest, bvars, evars, dvars, wvars, pvars, avars, svars,
                   lenabled, lretry, lcalls>>

\* the in-memory update is done and the write guard is dropped; on the hit
\* path the read guard of the cache goes with it (client.rs:635-637)
LockWriteDone(t) ==
    /\ ltasks[t].pc \in DOMAIN WriteUnlockAt
    /\ LET at == WriteUnlockAt[ltasks[t].pc]
           dropped == [lk EXCEPT ![at[1]] = release_write(@, t)]
       IN  /\ lk' = IF ltasks[t].pc = "hit_locked"
                    THEN [dropped EXCEPT !.cache = release_read(@, t)]
                    ELSE dropped
           /\ ltasks' = [ltasks EXCEPT ![t] =
                            [pc |-> at[2],
                             attempt |-> IF at[2] = "idle" THEN 0 ELSE @.attempt]]
    /\ UNCHANGED <<overflow_checks, xvars, nest, bvars, evars, dvars, wvars, pvars, avars, svars,
                   lenabled, lretry, lcalls>>

\* clear_cache begins (client.rs:656)
LockClearCache(t) ==
    /\ ltasks[t].pc = "idle"
    /\ lcalls < MaxLockCalls
    /\ lcalls' = lcalls + 1
    /\ ltasks' = [ltasks EXCEPT ![t] = [IdleLockTask EXCEPT !.pc = "clear_map"]]
    /\ UNCHANGED <<overflow_checks, xvars, nest, bvars, evars, dvars, wvars, pvars, avars, svars,
                   lenabled, lretry, lk>>

\* get_status begins (client.rs:652)
LockGetStatus(t) ==
    /\ ltasks[t].pc = "idle"
    /\ lcalls < MaxLockCalls
    /\ lcalls' = lcalls + 1
    /\ ltasks' = [ltasks EXCEPT ![t] = [IdleLockTask EXCEPT !.pc = "get_status"]]
    /\ UNCHANGED <<overflow_checks, xvars, nest, bvars, evars, dvars, wvars, pvars, avars, svars,
                   lenabled, lretry, lk>>

\* self.status.read().unwrap() (client.rs:653)
LockStatusRead(t) ==
    /\ ltasks[t].pc = "get_status"
    /\ can_read(lk.status)
    /\ lk' = [lk EXCEPT !.status = acquire_read(@, t)]
    /\ ltasks' = [ltasks EXCEPT ![t].pc = "get_status_locked"]
    /\ UNCHANGED <<overflow_checks, xvars, nest, bvars, evars, dvars, wvars, pvars, avars, svars,
                   lenabled, lretry, lcalls>>

\* .clone() is made and the read guard is dropped (client.rs:653)
LockStatusReadDone(t) ==
    /\ ltasks[t].pc = "get_status_locked"
    /\ lk' = [lk EXCEPT !.status = release_read(@, t)]
    /\ ltasks' = [ltasks EXCEPT ![t].pc = "idle"]
    /\ UNCHANGED <<overflow_checks, xvars, nest, bvars, evars, dvars, wvars, pvars, avars, svars,
                   lenabled, lretry, lcalls>>

NextLocks ==
    \/ \E t \in Tasks : LockDiscover(t)
    \/ \E t \in Tasks : LockCacheRead(t)
    \/ \E t \in Tasks : LockHit(t)
    \/ \E t \in Tasks, known \in BOOLEAN : LockMiss(t, known)
    \/ \E t \in Tasks, ok \in BOOLEAN, delayed \in BOOLEAN : LockAnswer(t, ok, delayed)
    \/ \E t \in Tasks : LockWake(t)
    \/ \E t \in Tasks : LockWrite(t)
    \/ \E t \in Tasks : LockWriteDone(t)
    \/ \E t \in Tasks : LockClearCache(t)
    \/ \E t \in Tasks : LockGetStatus(t)
    \/ \E t \in Tasks : LockStatusRead(t)
    \/ \E t \in Tasks : LockStatusReadDone(t)

SpecLocks == InitLocks /\ [][NextLocks]_vars

\* ---------------------------------------------------------------------
\* C26  no lock is held across a network request or a backoff sleep
\* ---------------------------------------------------------------------

\* the locks of which t holds a guard
Held(t) == {n \in {"cache", "status"} : t \in lk[n].readers \cup lk[n].writers}

\* t is suspended at the directory request or at the backoff sleep
Suspended(t) == ltasks[t].pc \in {"query", "sleep"}

\* the positions at which a guard is alive
InMemoryPositions ==
    {"entry", "count_hit", "get_status_locked"} \cup DOMAIN WriteUnlockAt

\* C26: in every reachable state of concurrent callers, a task that is
\* suspended at a network request or a backoff sleep holds neither the
\* cache lock nor the status lock; a lock is held only at the positions of
\* an in-memory read or update.
C26_NoLockAcrossAwait ==
    \A t \in Tasks :
        /\ Suspended(t) => Held(t) = {}
        /\ Held(t) # {} => ltasks[t].pc \in InMemoryPositions

\* one caller waits for the directory in its second attempt while the other
\* holds the write guard of the cache for its insert
C26_Witness ==
    /\ ltasks["t1"].pc = "query" /\ ltasks["t1"].attempt = 1
    /\ Held("t1") = {}
    /\ ltasks["t2"].pc = "insert_locked"
    /\ Held("t2") = {"cache"}

\* the fresh-entry path holds the read guard of the cache and the write
\* guard of the status together
NestedGuardsExample ==
    \E t \in Tasks : ltasks[t].pc = "hit_locked" /\ Held(t) = {"cache", "status"}

\* ---------------------------------------------------------------------
\* C27  transport errors outside the retryable set
\* ---------------------------------------------------------------------

\* the step in which a request is sent and its outcome handled
RequestHandled == epc = "send" /\ ereqs' = ereqs + 1

\* C27: in execute_with_retry a send error that is neither a timeout nor a
\* connection failure is returned to the caller at that attempt, with no
\* further attempt and no sleep; of the send errors only those mapped to
\* Timeout or ServiceUnavailable are retried.
C27_OtherTransportErrorReturned ==
    [][RequestHandled =>
          /\ elast_resp'.kind = "other" =>
                 /\ epc' = "done"
                 /\ eresult'.kind = "err"
                 /\ esleeps' = esleeps
                 /\ eattempt' = eattempt
          /\ elast_resp'.kind \in TransportFailures /\ epc' \in {"send", "sleep"} =>
                 elast_error'.kind \in {"Timeout", "ServiceUnavailable"}]_vars

\* the first request failed with a send error that is neither a timeout nor
\* a connection failure, and the call is sleeping before its second attempt
OtherTransportErrorRetriedExample ==
    /\ elast_resp.kind = "other"
    /\ ereqs = 1
    /\ eattempt = 1
    /\ epc = "sleep"
    /\ elast_error.kind = "HttpError"
    /\ eresult = Pending

\* ---------------------------------------------------------------------
\* C28  the kinds of error discover_service returns
\* ---------------------------------------------------------------------

\* C28: every Err returned by SapiDiscovery::discover_service, whatever the
\* service name and whatever the directory does, is of kind DiscoveryFailed
\* or NotFound.
C28_ErrIsDiscoveryFailedOrNotFound ==
    \A t \in Tasks :
        tasks[t].result.kind = "err" =>
            tasks[t].result.err.kind \in {"DiscoveryFailed", "NotFound"}

\* a lookup of a known service on an enabled engine without fallback ended
\* with the ServiceUnavailable of its last directory query
ServiceUnavailableReturnedExample ==
    \E t \in Tasks :
        /\ enabled
        /\ tasks[t].pc = "idle"
        /\ tasks[t].key = "vmapi"
        /\ tasks[t].result.kind = "err"
        /\ tasks[t].result.err.kind = "ServiceUnavailable"
        /\ tasks[t].queries = retry_attempts + 1

\* a lookup of a name that is no service ended with InvalidRequest
InvalidRequestReturnedExample ==
    \E t \in Tasks :
        /\ enabled
        /\ tasks[t].pc = "idle"
        /\ tasks[t].name = "bogus"
        /\ tasks[t].result.kind = "err"
        /\ tasks[t].result.err.kind = "InvalidRequest"
        /\ tasks[t].queries = 0

\* ---------------------------------------------------------------------
\* C29  the generic fallback error is never returned
\* ---------------------------------------------------------------------

\* the loop was left by `break`: attempt > max_retries (client.rs:484-486)
AttemptsExhausted == epc = "done" /\ eattempt > epolicy.max_retries

\* C29: in execute_with_retry, whenever the retry loop is left because the
\* attempts are exhausted, last_error is Some and is what the call returns;
\* the generic 'request failed after retries' ServiceUnavailable is returned
\* in no run.
C29_LastErrorIsSome ==
    /\ AttemptsExhausted =>
           /\ elast_error # NoError
           /\ eresult = Err(elast_error)
    /\ eresult # Err(GenericError)

\* a call with two retries has used them up and returned the error of its
\* third request
C29_Witness ==
    /\ AttemptsExhausted
    /\ epolicy.max_retries = 2
    /\ ereqs = 3
    /\ elast_error.req = 3
    /\ eresult = Err(elast_error)

(***************************************************************************)
(* The three retry loops side by side                                      *)
(*                                                                         *)
(* ServiceClient::execute_with_retry (triton-core client.rs:426-504),      *)
(* CnapiClient::send_json (triton-cnapi client.rs:186-284) and             *)
(* NapiClient::send_json (triton-napi client.rs:245-338) are run with the  *)
(* same policy against a backend that gives the same answer to the k-th    *)
(* request of each.  One step is one iteration of every loop that is still *)
(* running, its backoff sleep included.                                    *)
(***************************************************************************)
MaxSendRetries == 2

Loops == {"core", "cnapi", "napi"}

\* the statuses that tell the loops apart, and one of each other class
SendStatuses == {200, 400, 401, 403, 404, 409, 429, 503}

\* an answer of the backend: a status whose body can or cannot be read, or
\* a failure of send()
SendResponses ==
    {[kind |-> "status", code |-> c, body |-> b] :
        c \in SendStatuses, b \in {"readable", "unreadable"}}
    \cup {[kind |-> f, code |-> 0, body |-> "none"] : f \in TransportFailures}

\* what the Err(err) arm decides, the same text in the three loops
\* (core client.rs:470-480, cnapi 249-260, napi 303-314)
transport_decision(resp) ==
    IF transport_retryable(from_reqwest(resp.kind, 0)) THEN "retry" ELSE "return"

\* execute_with_retry (core client.rs:451-469): a success returns, a status
\* of should_retry is kept as last_error, any other status returns
core_decision(resp) ==
    IF resp.kind # "status" THEN transport_decision(resp)
    ELSE IF is_success(resp.code) THEN "return"
    ELSE IF should_retry(resp.code) THEN "retry"
    ELSE "return"

\* CnapiClient::send_json (cnapi client.rs:219-248): a success returns, 404
\* returns, every other status is kept as last_error
cnapi_decision(resp) ==
    IF resp.kind # "status" THEN transport_decision(resp)
    ELSE IF is_success(resp.code) THEN "return"
    ELSE IF resp.code = 404 THEN "return"
    ELSE "retry"

\* NapiClient::send_json (napi client.rs:277-302): a body that cannot be
\* read returns through `?`; then as in CnapiClient
napi_decision(resp) ==
    IF resp.kind # "status" THEN transport_decision(resp)
    ELSE IF resp.body = "unreadable" THEN "return"
    ELSE IF is_success(resp.code) THEN "return"
    ELSE IF resp.code = 404 THEN "return"
    ELSE "retry"

decision(loop, resp) ==
    CASE loop = "core" -> core_decision(resp)
      [] loop = "cnapi" -> cnapi_decision(resp)
      [] loop = "napi" -> napi_decision(resp)

\* a loop before its first request
NewRun == [pc |-> "send", attempt |-> 0, reqs |-> 0, returned_at |-> 0]

\* one iteration of a loop: the request is sent, the answer classified, and
\* after a failure that is kept the attempt is counted and the loop left
\* when attempt > max_retries (core client.rs:483-486, cnapi 263-266,
\* napi 317-320)
iteration(loop, run, resp, policy) ==
    IF decision(loop, resp) = "return"
    THEN [run EXCEPT !.pc = "done", !.reqs = @ + 1, !.returned_at = run.reqs + 1]
    ELSE [pc |-> IF run.attempt + 1 > policy.max_retries THEN "done" ELSE "send",
          attempt |-> run.attempt + 1,
          reqs |-> run.reqs + 1,
          returned_at |-> 0]

InitSend ==
    /\ overflow_checks = TRUE
    /\ spolicy \in {[RetryPolicy_new EXCEPT !.max_retries = r] : r \in 0..MaxSendRetries}
    /\ sscript = <<>>
    /\ sruns = [l \in Loops |-> NewRun]
    /\ BIdle
    /\ EIdle
    /\ DIdle
    /\ WIdle
    /\ PIdle
    /\ AIdle
    /\ LIdle
    /\ XIdle
    /\ NIdle

\* the backend answers the next request of every loop still running
SendRound(resp) ==
    /\ \E l \in Loops : sruns[l].pc = "send"
    /\ sscript' = Append(sscript, resp)
    /\ sruns' = [l \in Loops |->
                    IF sruns[l].pc = "send" THEN iteration(l, sruns[l], resp, spolicy)
                    ELSE sruns[l]]
    /\ UNCHANGED <<overflow_checks, xvars, nest, bvars, evars, dvars, wvars, pvars, avars, lvars, spolicy>>

NextSend == \E resp \in SendResponses : SendRound(resp)

SpecSend == InitSend /\ [][NextSend]_vars

\* ---------------------------------------------------------------------
\* C30  the duplicated retry loops decide as execute_with_retry does
\* ---------------------------------------------------------------------

\* the loop goes with execute_with_retry step by step
AgreesWithCore(l) ==
    /\ sruns[l].pc = sruns["core"].pc
    /\ sruns[l].reqs = sruns["core"].reqs
    /\ sruns[l].attempt = sruns["core"].attempt

\* the loop returned at the first answer with one of the given statuses
SurfacedAtFirst(l, codes) ==
    \A i \in 1..Len(sscript) :
        (sscript[i].kind = "status" /\ sscript[i].code \in codes /\ sruns[l].reqs >= i)
            => sruns[l].returned_at = i

\* C30: against the same backend and with the same policy, the retry loops
\* of CnapiClient::send_json and NapiClient::send_json take the same
\* retry-or-return decision as execute_with_retry at every answer, send the
\* same number of requests, and surface 400, 401, 403 and 409 at their
\* first occurrence.
C30_SendLoopsAgreeWithCore ==
    \A l \in {"cnapi", "napi"} :
        /\ AgreesWithCore(l)
        /\ SurfacedAtFirst(l, {400, 401, 403, 409})

\* the answers on which the three loops do agree
AgreedResponse(resp) ==
    \/ resp.kind # "status"
    \/ resp.body = "readable" /\ resp.code \in {200, 404, 429, 503}

\* as long as the backend gives only such answers the loops go together
SendLoopsAgreeOnAgreedResponses ==
    (\A i \in 1..Len(sscript) : AgreedResponse(sscript[i])) =>
        \A l \in {"cnapi", "napi"} : AgreesWithCore(l)

\* execute_with_retry itself surfaces the four statuses at once
CoreSurfacesClientErrors == SurfacedAtFirst("core", {400, 401, 403, 409})

\* a 403 answered to every request: execute_with_retry returned after one
\* request, the two send_json loops after max_retries + 1
ClientErrorRetriedExample ==
    /\ spolicy.max_retries = 2
    /\ \A i \in 1..Len(sscript) : sscript[i].kind = "status" /\ sscript[i].code = 403
    /\ sruns["core"].pc = "done" /\ sruns["core"].reqs = 1
    /\ sruns["cnapi"].pc = "done" /\ sruns["cnapi"].reqs = 3
    /\ sruns["napi"].pc = "done" /\ sruns["napi"].reqs = 3

(***************************************************************************)
(* Claims about the retry loop of SapiDiscovery::refresh_service.          *)
(***************************************************************************)
\* in this step the directory answers the query of t with an error
AttemptFails(t) ==
    /\ tasks[t].pc = "query"
    /\ tasks'[t].pc # "insert"
    /\ tasks'[t] # tasks[t]

\* the loop of t sends its next query in this step
SendsNextQuery(t) ==
    /\ tasks'[t].pc = "query"
    /\ tasks'[t].queries = tasks[t].queries + 1

\* what the failure of 0-based attempt i of t's refresh does: with attempts
\* remaining the status is left alone and the loop sleeps
\* delay_for_attempt(i + 1), or goes on at once when that is zero; after
\* attempt retry_attempts the failure is recorded and the call returns
RefreshFailureStep(t) ==
    LET i == tasks[t].attempt
        delay == delay_for_attempt(retry_policy, i + 1, overflow_checks)
    IN  /\ tasks[t].queries = i + 1
        /\ i <= retry_attempts
        /\ IF i < retry_attempts
           THEN /\ status' = status
                /\ ~delay.panic
                /\ IF delay.dur > 0
                   THEN tasks'[t].pc = "sleep" /\ tasks'[t].queries = i + 1
                   ELSE SendsNextQuery(t)
           ELSE /\ tasks'[t].pc = "idle"
                /\ tasks'[t].queries = retry_attempts + 1
                /\ tasks'[t].result.kind \in {"ok", "err"}
                /\ status' # status
                /\ status' = record_error(status, tasks[t].key,
                                Some([kind |-> status'.last_error[1].kind,
                                      req |-> retry_attempts + 1]), now)

\* a sleeping loop sends exactly one query when it wakes, and nothing else
\* of the call moves while it sleeps
RefreshSleepStep(t) ==
    tasks[t].pc = "sleep" /\ tasks'[t] # tasks[t] =>
        /\ SendsNextQuery(t)
        /\ tasks'[t].attempt = tasks[t].attempt
        /\ status' = status

\* C31: on a directory that fails every query, refresh_service sends its
\* queries one after another, retry_attempts + 1 of them; after the failure
\* of 0-based attempt i with attempts remaining it sleeps
\* delay_for_attempt(i + 1) and records nothing, and after the last attempt,
\* and only then, it records the failure in the status.
C31_RefreshRetrySchedule ==
    [][/\ AttemptFails(Caller) => RefreshFailureStep(Caller)
       /\ RefreshSleepStep(Caller)]_vars

\* the same for every retry_attempts below u32::MAX
RefreshRetryScheduleBelowMax ==
    [][retry_attempts < U32Max =>
          /\ AttemptFails(Caller) => RefreshFailureStep(Caller)
          /\ RefreshSleepStep(Caller)]_vars

\* two attempts failed with a sleep in between; the failure was recorded
\* once, by the second
RefreshRetryScheduleExample ==
    /\ retry_attempts = 1
    /\ retry_policy = RetryPolicy_new
    /\ RefreshFailed(Caller)
    /\ Returned(Caller)
    /\ status.last_error # None
    /\ status.last_error[1].req = 2
    /\ status.failed_services = <<tasks[Caller].key>>

\* the attempt counter is at u32::MAX and the loop did not end: the call
\* panicked, or sent a query beyond the retry_attempts + 1
RefreshCounterOverflowExample ==
    /\ retry_attempts = U32Max
    /\ \/ tasks[Caller].result.kind = "panic"
       \/ tasks[Caller].queries > retry_attempts + 1
    /\ status.last_error = None

(***************************************************************************)
(* Claims about the cache key of SapiDiscovery.                            *)
(***************************************************************************)
\* the names of the model that contain no upper-case letter
LowerCaseNames == {"vmapi", "bogus"}

\* the cache holds an entry under "vmapi" that is within ttl
FreshVmapiEntry ==
    /\ "vmapi" \in DOMAIN cache
    /\ now - cache["vmapi"].fetched_at <= ttl

\* in this step t calls discover_service with the given spelling: a call
\* begins, and it is t's (t's record changes, or no other caller is free to
\* begin one)
CallsWith(t, name) ==
    /\ tasks[t].pc = "idle"
    /\ ncalls' = ncalls + 1
    /\ tasks'[t].name = name
    /\ \A u \in Tasks \ {t} : tasks'[u] = tasks[u]
    /\ \/ tasks'[t] # tasks[t]
       \/ \A u \in Tasks \ {t} : tasks[u].pc # "idle"

\* C32: every key of the cache map is lower-case, and spellings that differ
\* only in letter case share one entry: while the entry stored by a
\* discover_service("vmapi") is within ttl, a discover_service("VMAPI")
\* returns that entry's endpoints as a cache hit and sends no directory
\* query; and a call that falls back reads the fallback under the
\* lower-cased key.
C32_CaseInsensitiveKey ==
    [][/\ DOMAIN cache' \subseteq LowerCaseNames
       /\ \A t \in Tasks :
            /\ (enabled /\ FreshVmapiEntry /\ CallsWith(t, "VMAPI")) =>
                  /\ tasks'[t].pc = "idle"
                  /\ tasks'[t].src = "cache"
                  /\ tasks'[t].result = OkEndpoints(cache["vmapi"].endpoints)
                  /\ status'.cache_hits = status.cache_hits + 1
                  /\ nqueries' = nqueries
                  /\ cache' = cache
            /\ (tasks'[t].name = "VMAPI" /\ tasks'[t].pc = "idle"
                    /\ tasks'[t].src = "fallback") =>
                  tasks'[t].result = OkEndpoints(fallback["vmapi"])
            /\ (~enabled /\ "vmapi" \in DOMAIN fallback /\ CallsWith(t, "VMAPI")) =>
                  tasks'[t].src = "fallback"]_vars

\* "vmapi" was looked up in the directory by one caller and then, spelled
\* "VMAPI", answered from the cache to the other
C32_Witness ==
    /\ enabled
    /\ DOMAIN cache = {"vmapi"}
    /\ tasks["t1"].name = "vmapi" /\ tasks["t1"].src = "directory"
    /\ tasks["t2"].name = "VMAPI" /\ tasks["t2"].src = "cache"
    /\ tasks["t2"].result = OkEndpoints(cache["vmapi"].endpoints)
    /\ nqueries = 1

\* a disabled engine answered "VMAPI" with the fallback of "vmapi"
FallbackSharedExample ==
    /\ ~enabled
    /\ tasks["t1"].name = "VMAPI"
    /\ tasks["t1"].result = OkEndpoints(<<"http://vmapi.fallback">>)

\* the entry was stored by a lookup spelled "VMAPI" and served one spelled
\* "vmapi"
UpperCaseStoredExample ==
    /\ tasks["t1"].name = "VMAPI" /\ tasks["t1"].src = "directory"
    /\ tasks["t2"].name = "vmapi" /\ tasks["t2"].src = "cache"

(***************************************************************************)
(* SapiClient::extract_instance_endpoints (sapi client.rs:227-271): the    *)
(* endpoint candidates of one instance record.  A TritonService is         *)
(* written by its name(); a serde_json::Value is a string or, standing for *)
(* every other kind, a number; a BTreeSet<String> is the sequence of its   *)
(* elements in ascending order.                                            *)
(***************************************************************************)
DEFAULT_HTTP_PORT == 80
DEFAULT_LDAPS_PORT == 636

\* the strings that occur as endpoints, in the order of String's Ord
\* (byte-wise: '0' < ':' puts 10.0.0.10 before 10.0.0.1)
StringsAscending ==
    <<"", "http://10.0.0.10:80", "http://10.0.0.1:80", "http://10.0.0.2:80",
      "http://a:8080", "http://host.local:80", "http://other:80",
      "ldaps://host.local:636">>

Ord(x) == CHOOSE i \in 1..Len(StringsAscending) : StringsAscending[i] = x

\* BTreeSet::new
BTreeSet_new == <<>>

\* a Vec that is pushed to in place of the set
Vec_push(set, x) == Append(set, x)

\* BTreeSet::insert: x takes its place in the order; an equal element stays
RECURSIVE BTreeSet_insert(_, _)
BTreeSet_insert(set, x) ==
    IF set = <<>> THEN <<x>>
    ELSE IF Head(set) = x THEN set
    ELSE IF Ord(x) < Ord(Head(set)) THEN <<x>> \o set
    ELSE <<Head(set)>> \o BTreeSet_insert(Tail(set), x)

JsonString(s) == [type |-> "string", s |-> s]
JsonNumber == [type |-> "number", s |-> ""]

\* serde_json::Value::as_str
as_str(v) == IF v.type = "string" THEN Some(v.s) ELSE None

\* map.get(key).and_then(|v| v.as_str())
get_str(map, key) == IF key \in DOMAIN map THEN as_str(map[key]) ELSE None

\* TritonService::default_port (types.rs:85-90)
default_port(service) ==
    IF service = "ufds" THEN DEFAULT_LDAPS_PORT ELSE DEFAULT_HTTP_PORT

\* key_variants (client.rs:235-239)
key_variants(service) == <<service \o "_url", service \o "_endpoint", "url">>

\* the loop over key_variants (client.rs:241-257): for each key the value of
\* metadata, then that of params
RECURSIVE insert_key_values(_, _, _)
insert_key_values(endpoints, keys, instance) ==
    IF keys = <<>> THEN endpoints
    ELSE LET m == get_str(instance.metadata, Head(keys))
             p == get_str(instance.params, Head(keys))
             with_m == IF m # None THEN BTreeSet_insert(endpoints, m[1]) ELSE endpoints
             with_p == IF p # None THEN BTreeSet_insert(with_m, p[1]) ELSE with_m
         IN  insert_key_values(with_p, Tail(keys), instance)

\* format!("{protocol}://{hostname}:{port}") (client.rs:261-267)
hostname_endpoint(service, hostname) ==
    (IF service = "ufds" THEN "ldaps" ELSE "http") \o "://" \o hostname \o ":"
        \o ToString(default_port(service))

\* an extraction that adds the hostname endpoint to whatever the keys gave
extract_with_hostname(service, instance) ==
    LET endpoints == insert_key_values(BTreeSet_new, key_variants(service), instance)
    IN  IF instance.hostname # None
        THEN BTreeSet_insert(endpoints, hostname_endpoint(service, instance.hostname[1]))
        ELSE endpoints

\* extract_instance_endpoints (client.rs:227-271)
extract_instance_endpoints(service, instance) ==
    LET endpoints == insert_key_values(BTreeSet_new, key_variants(service), instance)
    IN  IF endpoints = <<>> /\ instance.hostname # None
        THEN BTreeSet_insert(endpoints, hostname_endpoint(service, instance.hostname[1]))
        ELSE endpoints

\* the services asked for: one served over http, and ufds
ExtractServices == {"vmapi", "ufds"}

\* what an instance record may hold under one key: nothing, a value that
\* is no string, the empty string, a url
Absent == [type |-> "absent", s |-> ""]
SlotChoices == {Absent, JsonNumber, JsonString(""), JsonString("http://a:8080")}

\* the keys an instance record may carry: those read for the service, and
\* the url key of another service
RecordKeys(service) ==
    {service \o "_url", service \o "_endpoint", "url", "other_url"}

\* the map holding the chosen values
MapOf(slots) == [k \in {x \in DOMAIN slots : slots[x] # Absent} |-> slots[k]]

InstanceRecords(service) ==
    {[metadata |-> MapOf(m), params |-> MapOf(p), hostname |-> h] :
        m \in {f \in [RecordKeys(service) ->
                         SlotChoices \cup {JsonString("http://other:80")}] :
                  /\ f["other_url"] \in {Absent, JsonString("http://other:80")}
                  /\ \A k \in RecordKeys(service) \ {"other_url"} :
                        f[k] \in SlotChoices},
        p \in {f \in [RecordKeys(service) -> SlotChoices] : f["other_url"] = Absent},
        h \in {None, Some("host.local")}}

NotCalled == [kind |-> "none"]

\* the Vec<String> returned
EndpointsOf(list) == [kind |-> "returned", endpoints |-> list]

InitExtract ==
    /\ overflow_checks = TRUE
    /\ xservice \in ExtractServices
    /\ xinstance \in InstanceRecords(xservice)
    /\ xdir = Unused
    /\ xout = NotCalled
    /\ BIdle
    /\ EIdle
    /\ DIdle
    /\ WIdle
    /\ PIdle
    /\ AIdle
    /\ LIdle
    /\ SIdle
    /\ NIdle

\* extract_instance_endpoints(service, &instance)
Extract ==
    /\ xout = NotCalled
    /\ xout' = EndpointsOf(extract_instance_endpoints(xservice, xinstance))
    /\ UNCHANGED <<overflow_checks, bvars, evars, dvars, wvars, pvars, avars, lvars, svars,
                   nest, xservice, xinstance, xdir>>

NextExtract == Extract

SpecExtract == InitExtract /\ [][NextExtract]_vars

\* ---------------------------------------------------------------------
\* C34  the hostname endpoint is the last resort
\* ---------------------------------------------------------------------
\* one of the three keys of the service has a string value in the map
HasStringValue(map, service) ==
    \E k \in {service \o "_url", service \o "_endpoint", "url"} :
        k \in DOMAIN map /\ map[k].type = "string"

KeyHasValue ==
    HasStringValue(xinstance.metadata, xservice)
        \/ HasStringValue(xinstance.params, xservice)

\* the endpoint built from the hostname of the record
ExpectedHostnameEndpoint ==
    IF xservice = "ufds" THEN "ldaps://host.local:636" ELSE "http://host.local:80"

\* C34: for one instance record, the result holds the hostname endpoint
\* "{protocol}://{hostname}:{default_port}" if and only if none of the keys
\* "{service}_url", "{service}_endpoint", "url" has a string value in
\* metadata or params and a hostname is present; it is then the only
\* endpoint, ldaps with port 636 for ufds and http with port 80 otherwise;
\* when a key has a value, the result is made of key values alone.
C34_HostnameIsLastResort ==
    xout # NotCalled =>
        /\ Contains(xout.endpoints, ExpectedHostnameEndpoint)
              <=> (~KeyHasValue /\ xinstance.hostname # None)
        /\ (~KeyHasValue /\ xinstance.hostname # None)
              => xout.endpoints = <<ExpectedHostnameEndpoint>>
        /\ (~KeyHasValue /\ xinstance.hostname = None) => xout.endpoints = <<>>
        /\ KeyHasValue =>
              /\ xout.endpoints # <<>>
              /\ \A i \in 1..Len(xout.endpoints) : xout.endpoints[i] \in {"", "http://a:8080"}

\* a ufds instance with a hostname whose only values under the keys are
\* not strings, and a url under another service's key: the result is the
\* ldaps endpoint
C34_Witness ==
    /\ xout # NotCalled
    /\ xservice = "ufds"
    /\ xinstance.hostname = Some("host.local")
    /\ "url" \in DOMAIN xinstance.metadata
    /\ xinstance.metadata["url"] = JsonNumber
    /\ "other_url" \in DOMAIN xinstance.metadata
    /\ xout.endpoints = <<"ldaps://host.local:636">>

\* the empty string under a key keeps the hostname out
EmptyStringValueExample ==
    /\ xout # NotCalled
    /\ xinstance.hostname # None
    /\ xout.endpoints = <<"">>

(***************************************************************************)
(* SapiClient::discover_service_endpoints (sapi client.rs:190-225) over    *)
(* what the directory answers: the service records matching the name,      *)
(* and for each of them its instance records; either listing may fail.     *)
(***************************************************************************)
MaxServiceRecords == 2
MaxInstances == 2

\* the answer to a listing request: the records, or the error of get_json
Listed(items) == [kind |-> "ok", items |-> items, error |-> "none"]
ListingFailed == [kind |-> "err", items |-> <<>>, error |-> "ServiceUnavailable"]

\* two instance records whose candidates overlap: {10.0.0.10, 10.0.0.2},
\* with a hostname that is not used, and {10.0.0.1, 10.0.0.2}
SampleInstances(service) ==
    {[metadata |-> [k \in {service \o "_url"} |-> JsonString("http://10.0.0.2:80")],
      params |-> [k \in {"url"} |-> JsonString("http://10.0.0.10:80")],
      hostname |-> Some("host.local")],
     [metadata |-> [k \in {"url", "other_url"} |->
                      IF k = "url" THEN JsonString("http://10.0.0.1:80")
                      ELSE JsonString("http://other:80")],
      params |-> [k \in {service \o "_endpoint"} |-> JsonString("http://10.0.0.2:80")],
      hostname |-> None]}

\* the sequences over S of length at most n
SeqsUpTo(S, n) == UNION {[1..k -> S] : k \in 0..n}

\* the answers to list_instances for one service record
InstanceListings(service) ==
    {ListingFailed} \cup
        {Listed(is) : is \in SeqsUpTo(SampleInstances(service), MaxInstances)}

\* the answers of the directory: list_services fails, or gives up to
\* MaxServiceRecords records, each with its answer to list_instances
Directories(service) ==
    {ListingFailed} \cup
        {Listed(ss) : ss \in SeqsUpTo(InstanceListings(service), MaxServiceRecords)}

EndpointsOk(e) == [kind |-> "ok", endpoints |-> e, error |-> "none"]
EndpointsErr(k) == [kind |-> "err", endpoints |-> <<>>, error |-> k]

\* for endpoint in extract_instance_endpoints(..) { endpoints.insert(endpoint) }
RECURSIVE insert_all(_, _)
insert_all(endpoints, list) ==
    IF list = <<>> THEN endpoints
    ELSE insert_all(BTreeSet_insert(endpoints, Head(list)), Tail(list))

\* for instance in instances { .. } (client.rs:210-214)
RECURSIVE insert_instances(_, _, _)
insert_instances(endpoints, service, instances) ==
    IF instances = <<>> THEN endpoints
    ELSE insert_instances(
            insert_all(endpoints, extract_instance_endpoints(service, Head(instances))),
            service, Tail(instances))

\* for svc in services { list_instances(..).await?; .. } (client.rs:203-215):
\* the set collected, or the error of the first listing that fails
RECURSIVE insert_services(_, _, _)
insert_services(endpoints, service, services) ==
    IF services = <<>> THEN EndpointsOk(endpoints)
    ELSE IF Head(services).kind = "err" THEN EndpointsErr(Head(services).error)
    ELSE insert_services(insert_instances(endpoints, service, Head(services).items),
                         service, Tail(services))

\* a discovery that returns whatever it collected, be it nothing
discover_unchecked(service, dir) ==
    IF dir.kind = "err" THEN EndpointsErr(dir.error)
    ELSE IF dir.items = <<>> THEN EndpointsErr("NotFound")
    ELSE insert_services(BTreeSet_new, service, dir.items)

\* discover_service_endpoints (client.rs:190-225)
discover_service_endpoints(service, dir) ==
    IF dir.kind = "err" THEN EndpointsErr(dir.error)
    ELSE IF dir.items = <<>> THEN EndpointsErr("NotFound")
    ELSE LET collected == insert_services(BTreeSet_new, service, dir.items)
         IN  IF collected.kind = "err" THEN collected
             ELSE IF collected.endpoints = <<>> THEN EndpointsErr("DiscoveryFailed")
             ELSE EndpointsOk(collected.endpoints)

InitEndpoints ==
    /\ overflow_checks = TRUE
    /\ xservice \in ExtractServices
    /\ xinstance = Unused
    /\ xdir \in Directories(xservice)
    /\ xout = NotCalled
    /\ BIdle
    /\ EIdle
    /\ DIdle
    /\ WIdle
    /\ PIdle
    /\ AIdle
    /\ LIdle
    /\ SIdle
    /\ NIdle

\* client.discover_service_endpoints(service).await
DiscoverEndpoints ==
    /\ xout = NotCalled
    /\ xout' = discover_service_endpoints(xservice, xdir)
    /\ UNCHANGED <<overflow_checks, bvars, evars, dvars, wvars, pvars, avars, lvars, svars,
                   nest, xservice, xinstance, xdir>>

NextEndpoints == DiscoverEndpoints

SpecEndpoints == InitEndpoints /\ [][NextEndpoints]_vars

\* ---------------------------------------------------------------------
\* C33  the endpoints are the sorted union, whatever the order of records
\* ---------------------------------------------------------------------
\* every listing request was answered with records
AllListed(dir) ==
    /\ dir.kind = "ok"
    /\ \A i \in 1..Len(dir.items) : dir.items[i].kind = "ok"

\* the candidates of all instances of all service records
CandidateUnion(service, dir) ==
    {e \in {StringsAscending[n] : n \in 1..Len(StringsAscending)} :
        \E i \in 1..Len(dir.items) : \E j \in 1..Len(dir.items[i].items) :
            Contains(extract_instance_endpoints(service, dir.items[i].items[j]), e)}

StrictlyAscending(list) ==
    \A i \in 1..Len(list) - 1 : Ord(list[i]) < Ord(list[i + 1])

\* the sequence with elements i and i + 1 exchanged
SwapAt(list, i) == [list EXCEPT ![i] = list[i + 1], ![i + 1] = list[i]]

\* C33: when the directory answers every listing, an Ok result of
\* discover_service_endpoints is the union of the endpoint candidates of all
\* instances of all matching service records, as a strictly ascending
\* sequence without duplicates (there is an Ok result exactly when the union
\* is not empty), and exchanging two service records or two instance
\* records in the directory's answers gives the same result.
C33_SortedUnionAnyOrder ==
    (xout # NotCalled /\ AllListed(xdir) /\ xdir.items # <<>>) =>
        /\ xout.kind = "ok" <=> CandidateUnion(xservice, xdir) # {}
        /\ xout.kind = "ok" =>
              /\ StrictlyAscending(xout.endpoints)
              /\ {xout.endpoints[i] : i \in 1..Len(xout.endpoints)}
                    = CandidateUnion(xservice, xdir)
        /\ \A i \in 1..Len(xdir.items) - 1 :
              discover_service_endpoints(xservice, Listed(SwapAt(xdir.items, i))) = xout
        /\ \A i \in 1..Len(xdir.items) :
              \A j \in 1..Len(xdir.items[i].items) - 1 :
                  discover_service_endpoints(xservice,
                      Listed([xdir.items EXCEPT
                                 ![i] = Listed(SwapAt(xdir.items[i].items, j))])) = xout

\* two service records whose instances overlap and arrive in descending
\* order; the result is the three endpoints in byte order
C33_Witness ==
    /\ xout # NotCalled
    /\ xservice = "vmapi"
    /\ AllListed(xdir)
    /\ Len(xdir.items) = 2
    /\ Len(xdir.items[1].items) = 2
    /\ xdir.items[1].items[1].hostname = None
    /\ xdir.items[1].items[2].hostname = None
    /\ Len(xdir.items[2].items) = 1
    /\ xdir.items[2].items[1].hostname # None
    /\ xout = EndpointsOk(<<"http://10.0.0.10:80", "http://10.0.0.1:80",
                            "http://10.0.0.2:80">>)

\* records without any candidate: DiscoveryFailed, no empty Ok
NoCandidateExample ==
    /\ xout # NotCalled
    /\ AllListed(xdir)
    /\ Len(xdir.items) = 2
    /\ xout = EndpointsErr("DiscoveryFailed")

(***************************************************************************)
(* The lock sections again, for progress: retry_attempts is any u32, the   *)
(* build checks overflow or not, and the scheduler is fair: a call that    *)
(* can take its next step takes it, a request to the directory is          *)
(* answered and a sleep ends.                                              *)
(***************************************************************************)
InitLocksAny ==
    /\ overflow_checks \in BOOLEAN
    /\ lenabled \in BOOLEAN
    /\ lretry \in LockRetryChoices \cup {U32Max}
    /\ lk = [cache |-> FreeLock, status |-> FreeLock]
    /\ ltasks = [t \in Tasks |-> IdleLockTask]
    /\ lcalls = 0
    /\ BIdle
    /\ EIdle
    /\ DIdle
    /\ WIdle
    /\ PIdle
    /\ AIdle
    /\ SIdle
    /\ XIdle
    /\ NIdle

\* the steps by which a call of t goes on
LockProgress(t) ==
    \/ LockCacheRead(t)
    \/ LockHit(t)
    \/ \E known \in BOOLEAN : LockMiss(t, known)
    \/ \E ok \in BOOLEAN, delayed \in BOOLEAN : LockAnswer(t, ok, delayed)
    \/ LockWake(t)
    \/ LockWrite(t)
    \/ LockWriteDone(t)
    \/ LockStatusRead(t)
    \/ LockStatusReadDone(t)

SpecLocksLive ==
    InitLocksAny /\ [][NextLocks]_vars /\ \A t \in Tasks : WF_vars(LockProgress(t))

\* ---------------------------------------------------------------------
\* C35  no deadlock among discover_service, clear_cache and get_status
\* ---------------------------------------------------------------------
\* the lock t is about to request, if any
Requests(t) ==
    IF ltasks[t].pc \in DOMAIN WriteLockAt THEN {WriteLockAt[ltasks[t].pc][1]}
    ELSE IF ltasks[t].pc = "lookup" THEN {"cache"}
    ELSE IF ltasks[t].pc = "get_status" THEN {"status"}
    ELSE {}

\* t requests a lock that it cannot have now
Blocked(t) ==
    \/ ltasks[t].pc \in DOMAIN WriteLockAt /\ ~can_write(lk[WriteLockAt[ltasks[t].pc][1]])
    \/ ltasks[t].pc = "lookup" /\ ~can_read(lk.cache)
    \/ ltasks[t].pc = "get_status" /\ ~can_read(lk.status)

\* the status lock is requested holding nothing or only the read guard of
\* the cache; the cache lock is requested holding nothing
LockOrder ==
    \A t \in Tasks :
        /\ "status" \in Requests(t) =>
              \/ Held(t) = {}
              \/ Held(t) = {"cache"} /\ t \in lk.cache.readers
        /\ "cache" \in Requests(t) => Held(t) = {}

\* whoever waits for a lock waits for a holder that is not waiting itself
NoCyclicWait ==
    \A t \in Tasks :
        Blocked(t) =>
            \E u \in Tasks \ {t} :
                /\ Requests(t) \subseteq Held(u)
                /\ ~Blocked(u)

InCall(t) == ltasks[t].pc # "idle"

\* C35: concurrent discover_service, clear_cache and get_status calls never
\* deadlock: the status lock is requested only while holding no lock or
\* only the read guard of the cache, the cache lock never while holding the
\* status lock, no task waits for a task that waits, and every call that
\* has begun returns.
C35_NoDeadlockEveryCallReturns ==
    /\ [](LockOrder /\ NoCyclicWait)
    /\ \A t \in Tasks : InCall(t) ~> ~InCall(t)

\* the same for every retry_attempts below u32::MAX
NoDeadlockBelowMax ==
    /\ [](LockOrder /\ NoCyclicWait)
    /\ \A t \in Tasks : (lretry < U32Max /\ InCall(t)) ~> ~InCall(t)

\* a caller waits for the status lock, holding the read guard of the cache,
\* while the other updates the status
WaitsForStatusExample ==
    /\ ltasks["t1"].pc = "count_hit" /\ Held("t1") = {"cache"}
    /\ Blocked("t1")
    /\ ltasks["t2"].pc = "record_error_locked"

\* at retry_attempts = u32::MAX, with overflow checks, a refresh has panicked
\* at its attempt counter
LockCounterPanickedExample ==
    \E t \in Tasks : ltasks[t].pc = "panicked"

(***************************************************************************)
(* Claims about the cache and the counters under concurrent callers.       *)
(***************************************************************************)
\* no call is in flight
Quiescent == \A t \in Tasks : tasks[t].pc = "idle"

\* C36: in every state in which no discover_service or clear_cache call is
\* in flight, cache_misses is at least the number of keys in the cache map.
C36_MissesCoverCacheKeys ==
    Quiescent => status.cache_misses >= Cardinality(DOMAIN cache)

\* a clear_cache went between the record_success and the insert of a
\* refresh: the entry is in the map and no miss is counted
UncountedEntryExample ==
    /\ Quiescent
    /\ DOMAIN cache = {"vmapi"}
    /\ status.cache_misses = 0
    /\ status.last_success_at # None
    /\ \E t \in Tasks : tasks[t].src = "directory"

\* ---------------------------------------------------------------------
\* C37  a failed refresh leaves the cache and the counters alone
\* ---------------------------------------------------------------------
\* a step of a refresh that is not the arrival of endpoints: the first
\* query is sent, an attempt fails, or a sleep ends
FailingRefreshStep(t) ==
    \/ tasks[t].pc = "idle" /\ tasks'[t].pc = "query"
    \/ AttemptFails(t)
    \/ tasks[t].pc = "sleep" /\ tasks'[t].pc = "query"

CacheAndCountersUnchanged ==
    /\ cache' = cache
    /\ status'.cache_hits = status.cache_hits
    /\ status'.cache_misses = status.cache_misses

\* the call of t that returned last was a refresh whose attempts all failed
LastCallFailedRefresh(t) ==
    /\ tasks[t].pc = "idle"
    /\ tasks[t].queries >= 1
    /\ tasks[t].result.kind \in {"ok", "err"}
    /\ tasks[t].src \in {"fallback", "none"}

\* C37: no step of a refresh whose attempts fail changes the cache map,
\* cache_hits or cache_misses, whether the call then returns the fallback
\* endpoints or an error; nothing is written to the cache for the key, so
\* the next discover_service for that key sends a directory query again,
\* starting a new retry loop.
C37_FailedRefreshFrame ==
    [][/\ FailingRefreshStep(Caller) => CacheAndCountersUnchanged
       /\ (LastCallFailedRefresh(Caller) /\ ncalls' = ncalls + 1
              /\ tasks'[Caller].key = tasks[Caller].key) =>
             /\ tasks'[Caller].pc = "query"
             /\ tasks'[Caller].queries = 1
             /\ tasks'[Caller].attempt = 0
             /\ nqueries' = nqueries + 1]_vars

\* a refresh failed twice and returned the fallback; the next call for the
\* key went to the directory again, failed twice again, and the cache is
\* still empty with no miss counted
C37_Witness ==
    /\ retry_attempts = 1
    /\ ncalls = 2
    /\ nqueries = 4
    /\ LastCallFailedRefresh(Caller)
    /\ tasks[Caller].src = "fallback"
    /\ tasks[Caller].queries = 2
    /\ cache = EmptyMap
    /\ status.cache_misses = 0
    /\ status.cache_hits = 0

\* the same frame with callers in parallel
FailedRefreshFrameConcurrent ==
    [][\A t \in Tasks : FailingRefreshStep(t) => CacheAndCountersUnchanged]_vars

(***************************************************************************)
(* SapiDiscovery over the directory: the lookups of one caller, where the  *)
(* answer to a query is what discover_service_endpoints makes of the       *)
(* directory's records.                                                    *)
(***************************************************************************)
\* what discover_service_endpoints(Vmapi) can return
DirectoryOutcomes ==
    {discover_service_endpoints("vmapi", d) : d \in Directories("vmapi")}

InitLookup == InitWith(RetryAttemptChoices, MaxCalls)

\* the query of the caller is answered from the directory's records
DirectoryAnswers(out) ==
    /\ tasks[Caller].key = "vmapi"
    /\ QueryReturns(Caller, out)

NextLookup ==
    \/ \E name \in ServiceNames : Discover(Caller, name)
    \/ \E out \in DirectoryOutcomes : DirectoryAnswers(out)
    \/ Wake(Caller)
    \/ CacheInsert(Caller)
    \/ ClearCacheMap(Caller)
    \/ ClearCounters(Caller)
    \/ Tick

SpecLookup == InitLookup /\ [][NextLookup]_vars

\* ---------------------------------------------------------------------
\* C38  no empty endpoint list is returned or cached
\* ---------------------------------------------------------------------
\* C38: every Ok result of discover_service is a non-empty endpoint
\* sequence, whether it comes from the directory, from the cache or from
\* the fallback map of a disabled engine or of a failed refresh, and every
\* entry of the cache map holds a non-empty endpoint sequence.
C38_NoEmptyEndpoints ==
    /\ \A t \in Tasks : tasks[t].result.kind = "ok" => tasks[t].result.val # <<>>
    /\ \A k \in DOMAIN cache : cache[k].endpoints # <<>>

\* the directory gave the three endpoints, they were cached, and the next
\* call was answered from the cache
C38_Witness ==
    /\ ncalls = 2
    /\ tasks[Caller].src = "cache"
    /\ tasks[Caller].result.val =
           <<"http://10.0.0.10:80", "http://10.0.0.1:80", "http://10.0.0.2:80">>
    /\ cache["vmapi"].endpoints = tasks[Caller].result.val

\* the directory had records but no candidate: the refresh failed with
\* DiscoveryFailed, nothing was cached, and the fallback was returned
NoCandidateFallbackExample ==
    /\ enabled
    /\ tasks[Caller].src = "fallback"
    /\ tasks[Caller].result = OkEndpoints(<<"http://vmapi.fallback">>)
    /\ status.last_error # None
    /\ status.last_error[1].kind = "DiscoveryFailed"
    /\ cache = EmptyMap

\* a disabled engine answered from the fallback map
DisabledFallbackExample ==
    /\ ~enabled
    /\ tasks[Caller].result = OkEndpoints(<<"http://vmapi.fallback">>)

\* ---------------------------------------------------------------------
\* C39  a name that is no Triton service
\* ---------------------------------------------------------------------
\* in this step the caller calls discover_service with the given name
CallerCalls(name) ==
    /\ tasks[Caller].pc = "idle"
    /\ ncalls' = ncalls + 1
    /\ tasks'[Caller].name = name

\* C39: on an enabled engine, discover_service with a name that is not a
\* known Triton service returns Err(InvalidRequest) at once: no directory
\* query is sent, the call neither waits nor sleeps, and the status and the
\* cache map are as before.
C39_UnknownServiceRejected ==
    [][(enabled /\ CallerCalls("bogus")) =>
          /\ tasks'[Caller].pc = "idle"
          /\ tasks'[Caller].result = ErrOf([kind |-> "InvalidRequest", req |-> 0])
          /\ tasks'[Caller].queries = 0
          /\ nqueries' = nqueries
          /\ status' = status
          /\ cache' = cache]_vars

\* after a failed lookup of vmapi left its trace in the status, the caller
\* asked for the unknown name and got InvalidRequest; the status still
\* shows the failure of vmapi only
C39_Witness ==
    /\ enabled
    /\ ncalls = 2
    /\ nqueries >= 1
    /\ tasks[Caller].name = "bogus"
    /\ tasks[Caller].pc = "idle"
    /\ tasks[Caller].result = ErrOf([kind |-> "InvalidRequest", req |-> 0])
    /\ status.failed_services = <<"vmapi">>
    /\ status.last_error # None

(***************************************************************************)
(* SpecNested: one discover_service call of an enabled SapiDiscovery with  *)
(* an empty cache, followed request by request: refresh_service            *)
(* (triton-sapi client.rs:541-586) calls discover_service_endpoints        *)
(* (190-225), whose listings go through SapiClient::get_json (279-375).    *)
(* The directory holds at most one record of the service.                  *)
(***************************************************************************)
MaxNestRequests == 50

\* config.max_retries and service_discovery.retry_attempts are any u32
\* (with_max_retries, with_retry_attempts)
NestMaxRetries == {0, 1, 2, U32Max}
NestRetryAttempts == {0, 1, 2, U32Max}

\* SapiClientBuilder::build (client.rs:73-75): the policy of the HTTP
\* configuration, the default one of SapiClientBuilder::new, with
\* max_retries replaced by that of the configuration
build_retry_policy(http_policy, max_retries) ==
    [http_policy EXCEPT !.max_retries = max_retries]

\* the answers one send of a listing request can meet: a status with a body
\* that is an empty list, a list of one record, or not a list; or a failure
\* of send()
NestAnswers ==
    {[kind |-> "status", code |-> 200, body |-> b] : b \in {"empty", "one", "garbled"}}
    \cup {[kind |-> "status", code |-> c, body |-> "text"] :
             c \in {400, 403, 404, 429, 500, 503}}
    \cup {[kind |-> f, code |-> 0, body |-> "none"] : f \in {"timeout", "connect"}}

\* the match of get_json on one answer (client.rs:298-351): what the loop
\* does with it and the error it makes of it
get_json_match(resp) ==
    IF resp.kind # "status"
    THEN [do |-> IF transport_retryable(from_reqwest(resp.kind, 0)) THEN "keep" ELSE "return",
          error |-> from_reqwest(resp.kind, 0).kind]
    ELSE IF is_success(resp.code)
    THEN IF resp.body = "garbled" THEN [do |-> "return", error |-> "SapiParseError"]
         ELSE [do |-> "ok", error |-> "none"]
    ELSE IF resp.code = 404 THEN [do |-> "return", error |-> "NotFound"]
    ELSE IF resp.code \in {401, 403} THEN [do |-> "return", error |-> "InvalidRequest"]
    ELSE IF resp.code \in {429, 502, 503, 504} THEN [do |-> "keep", error |-> "ServiceUnavailable"]
    ELSE IF is_server_error(resp.code) THEN [do |-> "keep", error |-> "ServiceUnavailable"]
    ELSE [do |-> "return", error |-> "HttpError"]

\* the call before it starts
NewNest(max_retries, attempts, http_policy) ==
    [pc |-> "idle",
     retry_attempts |-> attempts,
     retry_policy |-> build_retry_policy(http_policy, max_retries),
     listing |-> "none",          \* the listing get_json is fetching
     attempt |-> 0,               \* refresh_service's attempt
     json_attempt |-> 0,          \* get_json's attempt
     last_error |-> "none",       \* refresh_service's last_error
     reqs |-> 0,                  \* HTTP requests sent to the directory
     recorded |-> 0,              \* calls of record_error
     succeeded |-> 0,             \* calls of record_success
     retryable_only |-> TRUE]     \* every answer so far was one get_json keeps

\* get_json starts on a listing: attempt = 0 and the first request is sent
\* (client.rs:283-296)
get_json_start(n, listing) ==
    [n EXCEPT !.pc = "sent", !.listing = listing, !.json_attempt = 0, !.reqs = @ + 1]

\* the Err(err) arm of refresh_service and what follows it (client.rs:560-574):
\* the attempt is counted; past retry_attempts the loop is left and the
\* failure recorded; otherwise the call sleeps for delay_for_attempt and
\* discover_service_endpoints is called again
refresh_err_arm(n, error, checks) ==
    LET next == add_u32(n.attempt, 1, checks)
        delay == delay_for_attempt(n.retry_policy, next.val, checks)
        failed == [n EXCEPT !.last_error = error]
    IN  IF next.panic THEN [failed EXCEPT !.pc = "panicked"]
        ELSE IF next.val > n.retry_attempts
        THEN [failed EXCEPT !.pc = "done", !.attempt = next.val, !.recorded = @ + 1]
        ELSE IF delay.panic THEN [failed EXCEPT !.pc = "panicked", !.attempt = next.val]
        ELSE get_json_start([failed EXCEPT !.attempt = next.val], "services")

\* the end of an iteration of get_json that kept its error (client.rs:356-374):
\* the attempt is counted; past max_retries the loop is left and the kept
\* error returned to refresh_service; otherwise the call sleeps for
\* delay_for_attempt and the request is sent again
get_json_retry(n, error, checks) ==
    LET next == add_u32(n.json_attempt, 1, checks)
        delay == delay_for_attempt(n.retry_policy, next.val, checks)
    IN  IF next.panic THEN [n EXCEPT !.pc = "panicked"]
        ELSE IF next.val > n.retry_policy.max_retries
        THEN refresh_err_arm([n EXCEPT !.json_attempt = next.val], error, checks)
        ELSE IF delay.panic THEN [n EXCEPT !.pc = "panicked", !.json_attempt = next.val]
        ELSE [n EXCEPT !.json_attempt = next.val, !.reqs = @ + 1]

\* discover_service_endpoints after a listing was read (client.rs:192-224):
\* no service record is NotFound; a record has its instances listed; no
\* endpoint among them is DiscoveryFailed; endpoints are the Ok of the
\* refresh, which records the success (548-558)
listing_read(n, body, checks) ==
    IF n.listing = "services"
    THEN IF body = "empty" THEN refresh_err_arm(n, "NotFound", checks)
         ELSE get_json_start(n, "instances")
    ELSE IF body = "empty" THEN refresh_err_arm(n, "DiscoveryFailed", checks)
         ELSE [n EXCEPT !.pc = "done", !.succeeded = @ + 1]

\* one answer handled by the get_json in progress
get_json_answer(n, resp, checks) ==
    LET m == get_json_match(resp)
        seen == [n EXCEPT !.retryable_only = @ /\ m.do = "keep"]
    IN  CASE m.do = "keep" -> get_json_retry(seen, m.error, checks)
          [] m.do = "return" -> refresh_err_arm(seen, m.error, checks)
          [] m.do = "ok" -> listing_read(seen, resp.body, checks)

InitNested ==
    /\ overflow_checks \in BOOLEAN
    /\ nest \in {NewNest(m, r, RetryPolicy_new) : m \in NestMaxRetries,
                                                  r \in NestRetryAttempts}
    /\ BIdle
    /\ EIdle
    /\ DIdle
    /\ WIdle
    /\ PIdle
    /\ AIdle
    /\ LIdle
    /\ SIdle
    /\ XIdle

\* discover_service("vmapi") with no cache entry (client.rs:617-640):
\* refresh_service parses the name, enters its loop with attempt 0 and the
\* first service listing is requested
NestCall ==
    /\ nest.pc = "idle"
    /\ nest' = get_json_start(nest, "services")
    /\ UNCHANGED <<overflow_checks, bvars, evars, dvars, wvars, pvars, avars, lvars, svars,
                   xvars>>

\* the directory answers the request in flight
NestAnswer(resp) ==
    /\ nest.pc = "sent"
    /\ nest.reqs < MaxNestRequests
    /\ nest' = get_json_answer(nest, resp, overflow_checks)
    /\ UNCHANGED <<overflow_checks, bvars, evars, dvars, wvars, pvars, avars, lvars, svars,
                   xvars>>

NextNested ==
    \/ NestCall
    \/ \E resp \in NestAnswers : NestAnswer(resp)

SpecNested == InitNested /\ [][NextNested]_vars

\* the requests the claim counts
NestedRequests == (nest.retry_attempts + 1) * (nest.retry_policy.max_retries + 1)

\* C40: when every send of the service listing fails retryably, one
\* discover_service call without a fresh cache entry sends exactly
\* (retry_attempts + 1) * (max_retries + 1) directory requests before it
\* records the failure: it never sends more, it does not abort, and when it
\* has returned the failure is recorded once after exactly that many.
C40_NestedRequestCount ==
    (nest.pc # "idle" /\ nest.retryable_only) =>
        /\ nest.pc # "panicked"
        /\ nest.reqs <= NestedRequests
        /\ nest.pc = "done" =>
              /\ nest.recorded = 1
              /\ nest.succeeded = 0
              /\ nest.reqs = NestedRequests

\* the same for limits below u32::MAX
NestedRequestCountBelowMax ==
    (/\ nest.pc # "idle"
     /\ nest.retryable_only
     /\ nest.retry_attempts < U32Max
     /\ nest.retry_policy.max_retries < U32Max) =>
        /\ nest.pc # "panicked"
        /\ nest.reqs <= NestedRequests
        /\ nest.pc = "done" =>
              /\ nest.recorded = 1
              /\ nest.succeeded = 0
              /\ nest.reqs = NestedRequests

\* retry_attempts = 2 and max_retries = 2: nine requests failed retryably
\* and the failure is recorded
NestedRequestCountExample ==
    /\ nest.pc = "done"
    /\ nest.retryable_only
    /\ nest.retry_attempts = 2
    /\ nest.retry_policy.max_retries = 2
    /\ nest.reqs = 9
    /\ nest.recorded = 1
    /\ nest.last_error = "ServiceUnavailable"

\* max_retries = u32::MAX without overflow checks: get_json's counter
\* wrapped and one more request than the claim's count is in flight
NestedCounterWrappedExample ==
    /\ nest.pc = "sent"
    /\ nest.retryable_only
    /\ ~overflow_checks
    /\ nest.retry_attempts = 0
    /\ nest.retry_policy.max_retries = U32Max
    /\ nest.reqs = NestedRequests + 1
    /\ nest.recorded = 0

\* retry_attempts = u32::MAX with overflow checks: refresh_service panicked
\* at its increment after the claim's count of requests, nothing recorded
NestedCounterPanickedExample ==
    /\ nest.pc = "panicked"
    /\ nest.retryable_only
    /\ overflow_checks
    /\ nest.retry_attempts = U32Max
    /\ nest.retry_policy.max_retries = 2
    /\ nest.reqs = NestedRequests
    /\ nest.recorded = 0

====
